---- MODULE Spec2Model ----
(***************************************************************************)
(* Model of the inpainting web application's session manager               *)
(* (src/lib/sessionManager.ts), of its serial batch run (src/App.tsx), of  *)
(* the draw scheduler of the canvas (useCanvasOptimization), of the        *)
(* coordinate conversions (coordinateTransform.ts), of the strokes of the  *)
(* editor (Editor.tsx, CanvasEditor.tsx), of the mask compositing          *)
(* (maskUtils.ts), of the output file names (utils.ts), of the bulk        *)
(* export of the download page (DownloadPage.tsx, imageDatabase.ts) and    *)
(* of the pool of OpenCV matrices (memoryManager.ts).                      *)
(*                                                                         *)
(* The program runs on one JavaScript event loop.  An action of this       *)
(* module is one synchronous segment of code: from a call, or from the     *)
(* resumption of an await, up to the next await or the return.  The        *)
(* settling of an external asynchronous operation (session construction,   *)
(* image decode, inference, staging write, timers) is an action of the     *)
(* environment.                                                            *)
(***************************************************************************)
EXTENDS Integers, Sequences, FiniteSets, TLC

\* ------------------------------------------------------------------------
\* Bounds
\* ------------------------------------------------------------------------

\* Sessions that createInpaintSession() may be asked to construct.
MaxSessions == 3
\* Calls of getGlobalInpaintSession() that are recorded.
MaxCalls == 3
\* Calls of clearGlobalSession().
MaxClears == 2

\* Files loaded in the editor (the files array of App.tsx).
NumFiles == 2
\* Batch runs that may be started.
MaxRuns == 2

\* Draw operations the editor may submit to the draw scheduler.
MaxOps == 3
\* Frames the scheduler may skip.
MaxSkips == 2
\* throttleMs, the minimum frame interval in milliseconds.
ThrottleMs == 16
\* The largest width and height of a canvas or an image.
MaxSize == 3
\* The denominator of the relative coordinates tried.
MaxDen == 4
\* The points of a line given to createMaskCanvas, the points of the line
\* being drawn in the editor, the strokes committed at a time (over all the
\* images) and the results kept.
MaxPts == 2
MaxDrawn == 1
MaxStrokes == 2
MaxRenders == 2
\* The strokes given to one call of createMaskCanvas.
MaxMasks == 2
\* The characters chosen freely before and after the filling of a file
\* name.
MaxAffix == 2
\* getProcessedFileName: maxBaseNameLength.
MaxBaseNameLength == 100
\* The records saved to the staging store and the downloadAll calls.
MaxRecords == 2
MaxExports == 2
\* The Mats that may be made, the getMat calls without a releaseMat that a
\* Mat may have, and the cleanup intervals that may pass.
MaxMats == 3
MaxHolders == 2
MaxIntervals == 4
\* MemoryManager.maxPoolSize (20 in the code), scaled to the Mats above.
MaxPoolSize == 2
\* MemoryManager.cleanupInterval and maxAge of cleanup, in milliseconds.
CleanupInterval == 30000
MaxAge == 60000

SessionIds == 1..MaxSessions
Runs == 1..MaxRuns
\* The positions of a batch run's list: item j is filesToProcess[j - 1].
Items == 1..NumFiles
\* batchProgress === null.
Null == <<>>

\* ------------------------------------------------------------------------
\* State
\* ------------------------------------------------------------------------

VARIABLES
    \* window.__inpaintSessionPromise: 0 when absent, else the id of the
    \* construction whose promise is cached.
    inpaintSessionPromise,
    \* The promise returned by the p-th createInpaintSession() call:
    \* "unborn" (not called yet), "pending", "fulfilled" or "rejected".
    \* A fulfilled promise p carries the session p.
    construction,
    \* Who called createInpaintSession() for p: "none", "manager", "batch".
    createdBy,
    \* typeof session.dispose === 'function' for the session p.
    hasDispose,
    \* session.dispose() has been called on the session p.
    disposed,
    \* Promises on which clearGlobalSession() has registered its
    \* then-callback, the callback not having run yet.
    thenDispose,
    \* History: the number of clearGlobalSession() calls made so far.
    epoch,
    \* History: the value of epoch when construction p was started.
    startEpoch,
    \* History: the value of epoch right after the clearGlobalSession()
    \* call that removed promise p from the cache (0: never removed).
    clearedAt,
    \* History: one record per getGlobalInpaintSession() call: the promise
    \* it returned, the value of epoch at the call, the state of that
    \* promise's construction as the call found it ("unborn": the call
    \* started it), and how the caller's await ended.
    calls

VARIABLES
    \* App.tsx state: the index of the file shown in the editor.
    currentFileIndex,
    \* App.tsx state: Null, or <<current, total>>; the processing overlay is
    \* rendered exactly when it is not Null.
    batchProgress,
    \* App.tsx state currentRoute: "home" or "download".
    route,
    \* Where the handleProcessRemaining call r stands: "idle" (not called),
    \* "awaitSession" (line 257), "awaitItem" (line 267), "loopYield"
    \* (line 287), "done" (returned).
    pc,
    \* The arguments of run r: first (index in files of filesToProcess[0]),
    \* total (filesToProcess.length), saveToDb.
    job,
    \* The session of run r (0: none yet).
    runSession,
    \* The loop variable i of run r.
    i,
    \* Where the processSingleImageWithSession call for item j of run r
    \* stands: "new" (not called), "decode" (line 117), "infer" (line 196),
    \* "save" (lines 205-213), "cleanupReturn" and "cleanupThrow" (line 232,
    \* a return or a throw pending), "returned", "threw".
    phase,
    \* The locals fileUrl, bitmap and canvas that are not null, of the
    \* processSingleImageWithSession call run r made last.
    refs,
    \* The scratch resources <<j, kind>> acquired for item j of run r and
    \* not released.
    held,
    \* The resultUrl of that call: "none", "valid", or "short" (a string of
    \* fewer than 100 characters).
    result,
    \* How run r ended: "none", "Completed", "Failed".
    outcome,
    \* The notifications shown by addNotification.
    notifications,
    \* History: the onProgress calls of run r, in order.
    progressCalls,
    \* History: the items of run r whose processing threw, at any step
    \* (decode, mask creation, inference, staging write, validation).
    thrown,
    \* History: the items of run r that passed the validation of line 275.
    succeeded,
    \* The items of run r handed to downloadImage.
    downloads,
    \* The items of run r saved by imageDB.saveImage.
    staged,
    \* History: the user clicked cancel while run r was running.
    cancelled

VARIABLES
    \* useCanvasOptimization is mounted.
    mounted,
    \* The option enableBatching.
    enableBatching,
    \* offscreenCanvas.current: whether it exists (the option
    \* enableOffscreenCanvas is set and the platform has OffscreenCanvas) and
    \* the operations whose painting it holds.
    offscreenCanvas,
    \* The operations whose painting the visible canvas shows.
    visible,
    \* operationQueue.current: the ids of the queued operations, in order.
    operationQueue,
    \* frameId.current: "null", "live" (the handle of a frame callback that
    \* is requested and has not run) or "stale" (the handle of a callback
    \* that has run or was cancelled).
    frameId,
    \* The frame callbacks requested with requestAnimationFrame that have
    \* neither run nor been cancelled; each is processOperationQueue.
    pendingFrames,
    \* performance.now() - lastDrawTime.current in milliseconds, counted up
    \* to ThrottleMs.
    sinceLastDraw,
    \* performanceStats.current.drawCalls and .skippedFrames.
    drawCalls,
    skippedFrames,
    \* The operations given to throttledDraw from outside, in order: the
    \* priority, and what the thunk does: "paint", "throw", "clear" (it
    \* calls clearQueue) or "submit" (it calls throttledDraw with a paint
    \* thunk of its own priority, the operation id + MaxOps).
    ops,
    \* History: the thunks run, in order, each with the number of the batch
    \* (or of the immediate execution) that ran it.
    drawLog,
    \* History: the number of batches and immediate executions started.
    batches,
    \* History: the operations submitted and not run when clearQueue was
    \* called.
    dropped,
    \* History: the handler that ran last: "none", "mount", "draw", "frame",
    \* "skip", "clear", "tick", "unmount".
    step

schedVars == <<mounted, enableBatching, offscreenCanvas, visible,
               operationQueue, frameId,
               pendingFrames, sinceLastDraw, drawCalls, skippedFrames, ops,
               drawLog, batches, dropped, step>>

batchVars == <<currentFileIndex, batchProgress, route, pc, job, runSession,
               i, phase, refs, held, result, outcome, notifications,
               progressCalls, thrown, succeeded, downloads, staged, cancelled>>

sessionVars == <<inpaintSessionPromise, construction, createdBy, hasDispose,
                 disposed, thenDispose, epoch, startEpoch, clearedAt, calls>>

VARIABLES
    \* The last call of a conversion of coordinateTransform.ts: the function,
    \* its point and its size.
    coordCall,
    \* What the call returned.
    coordResult,
    \* The call threw.
    coordThrew

coordVars == <<coordCall, coordResult, coordThrew>>

VARIABLES
    \* Editor state context: the canvas is set up.
    context,
    \* clientWidth and clientHeight of context.canvas.
    canvasSize,
    \* App state imageMasks: for each file index the committed strokes, each
    \* with its points and, as history, the indices of the files that were
    \* shown when its points were drawn; no entry is an empty list.
    imageMasks,
    \* Editor state lines: its last element, the line being drawn, with its
    \* points in canvas coordinates. The earlier elements are only painted.
    lines,
    \* The listeners of mousemove (onMouseDrag) and mouseup are on the canvas.
    dragging,
    \* Editor state renders: the results of processBatch, each standing for
    \* the index of the file that was shown when it was produced.
    renders,
    \* Editor state showBatchButton and currentImageProcessed.
    showBatchButton,
    currentImageProcessed,
    \* History: the index of the file that was shown when processBatch set
    \* currentImageProcessed; -1 while it is false.
    processedFile,
    \* History: what the last call of undo removed: "none", "stroke" or
    \* "render".
    lastUndo

strokeVars == <<context, canvasSize, imageMasks, lines, dragging, renders,
                showBatchButton, currentImageProcessed, processedFile,
                lastUndo>>

\* The Editor state that only processBatch and the handlers of the toolbar
\* change.
processVars == <<showBatchButton, currentImageProcessed, processedFile>>

VARIABLES
    \* The last call of createMaskCanvas: its arguments, the canvas it
    \* returned and whether it threw.
    maskCall,
    \* The last call of getProcessedFileName: its argument and its result.
    nameCall,
    \* The records of the object store 'processed-images' of IndexedDB: ids.
    dbStore,
    \* The number of records saved so far; the next record has the next id.
    dbNext,
    \* DownloadPage: mounted or not, and its state images (the ids of the
    \* records loaded by loadImages) and downloading.
    page,
    \* The downloadAll call in progress: where it stands ("idle": none,
    \* "convert": awaiting convertImageFormat, "zip": awaiting
    \* generateAsync), its downloadFormat, the images of its closure and
    \* the number of them put in the archive.
    exportRun,
    \* The timers set by downloadAll that have not fired, oldest first, each
    \* with the records of the archive of its export.
    clearTimers,
    \* History: the numbers of downloadAll calls that downloaded an archive
    \* (ok) and that failed, and of clearAll calls made by the timers.
    exportStats

utilVars == <<maskCall, nameCall, dbStore, dbNext, page, exportRun,
              clearTimers, exportStats>>

VARIABLES
    \* MemoryManager.matPool: the items {mat, inUse, lastUsed}, in order.
    matPool,
    \* The number of Mats made by new cv.Mat(); the next Mat has the next id.
    matCreated,
    \* The Mats on which delete() was called.
    matDeleted,
    \* For every Mat, the callers that got it from getMat() and have not
    \* passed it to releaseMat().
    matHolders,
    \* mat.rows and mat.cols of every Mat.
    matDims,
    \* Date.now(), in milliseconds since the manager was constructed.
    poolClock,
    \* MemoryManager.cleanupTimer is not null.
    cleanupTimer,
    \* History: the number of destroy() calls.
    matDestroys

poolVars == <<matPool, matCreated, matDeleted, matHolders, matDims,
              poolClock, cleanupTimer, matDestroys>>

\* The variables of the editor's components and of the utilities.
editorVars == <<schedVars, coordVars, strokeVars, utilVars, poolVars>>

vars == <<sessionVars, batchVars, editorVars>>

\* ------------------------------------------------------------------------
\* src/adapters/inpainting: createInpaintSession (opaque constructor)
\* ------------------------------------------------------------------------

\* The ids not used yet.
Unborn == {p \in SessionIds : construction[p] = "unborn"}

\* The id the next createInpaintSession() call gets.
NextSessionId == CHOOSE p \in Unborn : \A q \in Unborn : p <= q

\* createInpaintSession(): starts an asynchronous construction and returns
\* its pending promise at once.
CreateInpaintSession(p, who) ==
    /\ construction' = [construction EXCEPT ![p] = "pending"]
    /\ createdBy' = [createdBy EXCEPT ![p] = who]
    /\ startEpoch' = [startEpoch EXCEPT ![p] = epoch]

\* A then-callback or an awaiting caller is ready to run: a microtask.
\* Microtasks run before the event loop takes its next task.
CallReady(c) ==
    /\ calls[c].state = "awaiting"
    /\ construction[calls[c].promise] \in {"fulfilled", "rejected"}

DisposeReady(p) ==
    /\ p \in thenDispose
    /\ construction[p] \in {"fulfilled", "rejected"}

MicrotasksEmpty ==
    /\ \A c \in 1..Len(calls) : ~CallReady(c)
    /\ \A p \in SessionIds : ~DisposeReady(p)

\* ------------------------------------------------------------------------
\* src/lib/sessionManager.ts
\* ------------------------------------------------------------------------

\* A rejected promise is not kept: the call that finds one in the cache
\* starts a construction.
SessionPromiseAfterGet_RetryRejected ==
    IF inpaintSessionPromise = 0
       THEN NextSessionId
       ELSE IF construction[inpaintSessionPromise] = "rejected" /\ Unborn # {}
               THEN NextSessionId
               ELSE inpaintSessionPromise

\* The test of line 17 dropped: a construction is started by every call.
SessionPromiseAfterGet_AlwaysCreate ==
    IF Unborn # {} THEN NextSessionId ELSE inpaintSessionPromise

\* The cached promise after the test of line 17 and the assignment of
\* line 19: a construction is started only when the cache is empty.
SessionPromiseAfterGet ==
    IF inpaintSessionPromise = 0 THEN NextSessionId ELSE inpaintSessionPromise

\* getGlobalInpaintSession(): lines 16-22.
GetGlobalInpaintSession ==
    /\ Len(calls) < MaxCalls
    /\ inpaintSessionPromise = 0 => Unborn # {}
    /\ IF SessionPromiseAfterGet # inpaintSessionPromise
          THEN CreateInpaintSession(SessionPromiseAfterGet, "manager")
          ELSE UNCHANGED <<construction, createdBy, startEpoch>>
    /\ inpaintSessionPromise' = SessionPromiseAfterGet
    /\ calls' = Append(calls, [promise |-> SessionPromiseAfterGet,
                               epoch |-> epoch,
                               seen |-> construction[SessionPromiseAfterGet],
                               state |-> "awaiting"])
    /\ UNCHANGED <<hasDispose, disposed, thenDispose, epoch, clearedAt>>
    /\ UNCHANGED <<batchVars, editorVars>>

\* The callbacks registered by lines 29-36 of clearGlobalSession().
ThenDisposeAfterClear == thenDispose \cup {inpaintSessionPromise}

\* clearGlobalSession(): lines 27-41.
ClearGlobalSession ==
    /\ epoch < MaxClears
    /\ epoch' = epoch + 1
    /\ IF inpaintSessionPromise # 0
          THEN /\ thenDispose' = ThenDisposeAfterClear
               /\ clearedAt' = [clearedAt EXCEPT
                                   ![inpaintSessionPromise] = epoch + 1]
               /\ inpaintSessionPromise' = 0
          ELSE UNCHANGED <<thenDispose, clearedAt, inpaintSessionPromise>>
    /\ UNCHANGED <<construction, createdBy, hasDispose, disposed,
                   startEpoch, calls>>
    /\ UNCHANGED <<batchVars, editorVars>>

\* The then-callback of lines 30-35, run once the promise has settled: it
\* disposes of the session when the session has a dispose function; the
\* rejection of the promise goes to the catch of line 36.
DisposeCallback(p) ==
    /\ DisposeReady(p)
    /\ thenDispose' = thenDispose \ {p}
    /\ disposed' = [disposed EXCEPT
                       ![p] = @ \/ (construction[p] = "fulfilled"
                                    /\ hasDispose[p])]
    /\ UNCHANGED <<inpaintSessionPromise, construction, createdBy,
                   hasDispose, epoch, startEpoch, clearedAt, calls>>
    /\ UNCHANGED <<batchVars, editorVars>>

\* A caller's await of getGlobalInpaintSession() resumes.
CallSettles(c) ==
    /\ CallReady(c)
    /\ calls' = [calls EXCEPT ![c].state = construction[calls[c].promise]]
    /\ UNCHANGED <<inpaintSessionPromise, construction, createdBy,
                   hasDispose, disposed, thenDispose, epoch, startEpoch,
                   clearedAt>>
    /\ UNCHANGED <<batchVars, editorVars>>

\* The engine finishes a construction the manager started: the promise is
\* fulfilled with a session, which may or may not expose dispose(), or it
\* is rejected.
ConstructionSettles(p, ok, disposable) ==
    /\ construction[p] = "pending"
    /\ createdBy[p] = "manager"
    /\ MicrotasksEmpty
    /\ construction' = [construction EXCEPT
                           ![p] = IF ok THEN "fulfilled" ELSE "rejected"]
    /\ hasDispose' = [hasDispose EXCEPT ![p] = ok /\ disposable]
    /\ UNCHANGED <<inpaintSessionPromise, createdBy, disposed, thenDispose,
                   epoch, startEpoch, clearedAt, calls>>
    /\ UNCHANGED <<batchVars, editorVars>>

\* ------------------------------------------------------------------------
\* src/App.tsx: the batch run
\*
\* The operators below are the synchronous segments of the code as functions
\* from the App state s (a record of the variables above) to the App state
\* after the segment; the actions apply them.
\* ------------------------------------------------------------------------

BatchState ==
    [currentFileIndex |-> currentFileIndex, batchProgress |-> batchProgress,
     route |-> route, pc |-> pc, job |-> job, runSession |-> runSession,
     i |-> i, phase |-> phase, refs |-> refs, held |-> held,
     result |-> result, outcome |-> outcome,
     notifications |-> notifications, progressCalls |-> progressCalls,
     thrown |-> thrown, succeeded |-> succeeded, downloads |-> downloads,
     staged |-> staged, cancelled |-> cancelled]

SetBatch(s) ==
    /\ currentFileIndex' = s.currentFileIndex
    /\ batchProgress' = s.batchProgress
    /\ route' = s.route
    /\ pc' = s.pc
    /\ job' = s.job
    /\ runSession' = s.runSession
    /\ i' = s.i
    /\ phase' = s.phase
    /\ refs' = s.refs
    /\ held' = s.held
    /\ result' = s.result
    /\ outcome' = s.outcome
    /\ notifications' = s.notifications
    /\ progressCalls' = s.progressCalls
    /\ thrown' = s.thrown
    /\ succeeded' = s.succeeded
    /\ downloads' = s.downloads
    /\ staged' = s.staged
    /\ cancelled' = s.cancelled

\* The index in files of item j of run r, which stands for its name.
FileOf(s, r, j) == s.job[r].first + (j - 1)

\* addNotification: kind is "info" (nothing to process), "warning" (no valid
\* mask), "itemError" (line 290, names the file), "batchError" (line 384) or
\* "success" (line 375, carries the count).
Notification(kind, r, file, count) ==
    [kind |-> kind, run |-> r, file |-> file, count |-> count]

Notify(s, n) == [s EXCEPT !.notifications = @ \cup {n}]

\* The number of processed images the success notification states: line 376.
ReportedCount(s, r) == s.job[r].total

\* handleProcessRemaining, lines 381-385: the catch.
HandlerCatch(s, r) ==
    Notify([s EXCEPT !.batchProgress = Null,
                     !.outcome[r] = "Failed",
                     !.pc[r] = "done"],
           Notification("batchError", r, -1, 0))

\* The progress left as it is when processRemainingFiles has returned.
HandlerFinish_KeepProgress(s, r) ==
    LET t == [s EXCEPT !.outcome[r] = "Completed",
                       !.pc[r] = "done"]
    IN  IF s.job[r].saveToDb
           THEN t
           ELSE Notify([t EXCEPT !.currentFileIndex = NumFiles - 1],
                       Notification("success", r, -1, ReportedCount(s, r)))

\* handleProcessRemaining, lines 362-380: after processRemainingFiles has
\* returned.
HandlerFinish(s, r) ==
    LET t == [s EXCEPT !.batchProgress = Null,
                       !.outcome[r] = "Completed",
                       !.pc[r] = "done"]
    IN  IF s.job[r].saveToDb
           THEN t
           ELSE Notify([t EXCEPT !.currentFileIndex = NumFiles - 1],
                       Notification("success", r, -1, ReportedCount(s, r)))

\* processRemainingFiles, lines 294-299: after the loop.
LoopExit(s, r) ==
    HandlerFinish(IF s.job[r].saveToDb
                     THEN [s EXCEPT !.route = "download"]
                     ELSE s,
                  r)

\* processSingleImageWithSession, lines 184-190, and prepareImageCanvas,
\* lines 111-117, up to the await of createImageBitmap: the object URL and
\* the canvas of prepareImageCanvas are acquired; the local canvas of
\* processSingleImageWithSession is still null.
BeginItem(s, r, j) ==
    [s EXCEPT !.held[r] = @ \cup {<<j, "fileUrl">>, <<j, "canvas">>},
              !.refs[r] = {"fileUrl"},
              !.result[r] = "none",
              !.phase[r][j] = "decode"]

\* The progress callback given the loop variable itself.
LoopTop_ZeroBased(s, r, idx) ==
    IF idx < s.job[r].total
       THEN BeginItem([s EXCEPT
                          !.i[r] = idx,
                          !.batchProgress = <<idx, s.job[r].total>>,
                          !.progressCalls[r] =
                              Append(@, <<idx, s.job[r].total>>),
                          !.pc[r] = "awaitItem"],
                      r, idx + 1)
       ELSE LoopExit([s EXCEPT !.i[r] = idx], r)

\* processRemainingFiles, lines 259-267: the loop test with i = idx and the
\* body up to the await of processSingleImageWithSession.
LoopTop(s, r, idx) ==
    IF idx < s.job[r].total
       THEN BeginItem([s EXCEPT
                          !.i[r] = idx,
                          !.batchProgress = <<idx + 1, s.job[r].total>>,
                          !.progressCalls[r] =
                              Append(@, <<idx + 1, s.job[r].total>>),
                          !.pc[r] = "awaitItem"],
                      r, idx + 1)
       ELSE LoopExit([s EXCEPT !.i[r] = idx], r)

\* The loop entered although the construction failed.
AfterSession_IgnoreFailure(s, r, ok) == LoopTop(s, r, 0)

\* processRemainingFiles, line 257 resumed: a rejected construction throws
\* out of processRemainingFiles, into the catch of handleProcessRemaining.
AfterSession(s, r, ok) ==
    IF ok THEN LoopTop(s, r, 0) ELSE HandlerCatch(s, r)

\* processSingleImageWithSession, lines 219-240: the finally block up to
\* its await. What the locals hold is released.
Finally(s, r, j, threw) ==
    [s EXCEPT !.held[r] = @ \ {<<j, k>> : k \in s.refs[r]},
              !.phase[r][j] = IF threw THEN "cleanupThrow"
                                       ELSE "cleanupReturn"]

\* An exception inside the try of processSingleImageWithSession.
Throw(s, r, j) ==
    Finally([s EXCEPT !.thrown[r] = @ \cup {j}], r, j, TRUE)

\* prepareImageCanvas, lines 117-128, resumed, then lines 191-200: the
\* decode failed, or the bitmap is acquired, the locals canvas and bitmap
\* are set, the mask is created (or that fails) and inference is called.
AfterDecode(s, r, j, ok, maskOk) ==
    IF ~ok
       THEN Throw(s, r, j)
       ELSE LET t == [s EXCEPT !.held[r] = @ \cup {<<j, "bitmap">>},
                               !.refs[r] = @ \cup {"canvas", "bitmap"}]
            IN  IF ~maskOk
                   THEN Throw(t, r, j)
                   ELSE [t EXCEPT !.phase[r][j] = "infer"]

\* processSingleImageWithSession, lines 196-218, resumed after inference:
\* res is "rejected", "empty" (a falsy result), "short" or "valid".
AfterInfer(s, r, j, res) ==
    IF res = "rejected"
       THEN Throw(s, r, j)
       ELSE IF res = "empty"
               THEN Throw(s, r, j)
               ELSE LET t == [s EXCEPT !.result[r] = res]
                    IN  IF s.job[r].saveToDb
                           THEN [t EXCEPT !.phase[r][j] = "save"]
                           ELSE Finally(t, r, j, FALSE)

\* processSingleImageWithSession, lines 205-218, resumed after the fetch of
\* the result and imageDB.saveImage.
AfterSave(s, r, j, ok) ==
    IF ok
       THEN Finally([s EXCEPT !.staged[r] = @ \cup {j}], r, j, FALSE)
       ELSE Throw(s, r, j)

\* processSingleImageWithSession, lines 232-241: the idle callback fired.
AfterIdle(s, r, j) ==
    [s EXCEPT !.phase[r][j] = IF s.phase[r][j] = "cleanupThrow"
                                 THEN "threw" ELSE "returned"]

\* The exception leaves the loop.
ItemCatch_Rethrow(s, r, j) == HandlerCatch(s, r)

\* processRemainingFiles, lines 288-292: the catch, then the next iteration.
ItemCatch(s, r, j) ==
    LoopTop(Notify(s, Notification("itemError", r, FileOf(s, r, j), 0)),
            r, s.i[r] + 1)

\* The call of line 267 not awaited.
ItemSettled_NoAwait(s, r) == s.phase[r][s.i[r] + 1] # "new"

\* The await of line 267 can resume: the call has returned or thrown.
ItemSettled(s, r) == s.phase[r][s.i[r] + 1] \in {"returned", "threw"}

\* processRemainingFiles, lines 267-287, resumed after the item's call.
AfterItem(s, r) ==
    LET j == s.i[r] + 1
    IN  IF s.phase[r][j] = "threw"
           THEN ItemCatch(s, r, j)
           ELSE IF s.result[r] # "valid"
                   THEN ItemCatch([s EXCEPT !.thrown[r] = @ \cup {j}], r, j)
                   ELSE [s EXCEPT
                            !.succeeded[r] = @ \cup {j},
                            !.downloads[r] =
                                IF s.job[r].saveToDb THEN @ ELSE @ \cup {j},
                            !.pc[r] = "loopYield"]

\* A continuation of a batch run is ready to resume: a microtask.
LoopReady == \E r \in Runs : pc[r] = "awaitItem" /\ ItemSettled(BatchState, r)

\* The editor can be operated: it is mounted and not covered by the
\* processing overlay (fixed inset-0 z-50).
EditorAccessible == route = "home" /\ batchProgress = Null

\* The run the next handleProcessRemaining call is.
NextRun == CHOOSE r \in Runs : pc[r] = "idle" /\ \A q \in Runs :
                                   pc[q] = "idle" => r <= q

\* handleSelectImage, lines 398-400. The Editor is rendered again with the
\* new file and keeps its state; the pointer effect of CanvasEditor.tsx runs
\* again and its cleanup removes the listeners of mousemove and mouseup.
SelectImage(index) ==
    /\ EditorAccessible
    /\ ~LoopReady
    /\ dragging' = FALSE
    /\ UNCHANGED <<context, canvasSize, imageMasks, lines, renders, lastUndo>>
    /\ UNCHANGED processVars
    /\ UNCHANGED <<schedVars, coordVars, utilVars, poolVars>>
    /\ index # currentFileIndex
    /\ SetBatch([BatchState EXCEPT !.currentFileIndex = index])
    /\ UNCHANGED sessionVars

\* The test of line 315 dropped.
NothingToProcess_Never(total) == FALSE

\* handleProcessRemaining, line 315: filesToProcess.length === 0.
NothingToProcess(total) == total = 0

\* handleProcessRemaining, lines 304-360, with processRemainingFiles up to
\* the await of line 257.
HandleProcessRemaining(includeCurrentFile, saveToDb, validMasks) ==
    /\ EditorAccessible
    /\ ~LoopReady
    /\ UNCHANGED editorVars
    /\ \E r \in Runs : pc[r] = "idle"
    /\ LET r == NextRun
           first == IF includeCurrentFile THEN currentFileIndex
                                          ELSE currentFileIndex + 1
           total == NumFiles - first
       IN  IF NothingToProcess(total)
              THEN /\ SetBatch(Notify(BatchState,
                                      Notification("info", 0, -1, 0)))
                   /\ UNCHANGED sessionVars
              ELSE IF ~validMasks
                      THEN /\ SetBatch(Notify(BatchState,
                                  Notification("warning", 0, -1, 0)))
                           /\ UNCHANGED sessionVars
                      ELSE /\ Unborn # {}
                           /\ CreateInpaintSession(NextSessionId, "batch")
                           /\ SetBatch([BatchState EXCEPT
                                  !.batchProgress = <<0, total>>,
                                  !.job[r] = [first |-> first,
                                              total |-> total,
                                              saveToDb |-> saveToDb],
                                  !.runSession[r] = NextSessionId,
                                  !.pc[r] = "awaitSession"])
                           /\ UNCHANGED <<inpaintSessionPromise, hasDispose,
                                          disposed, thenDispose, epoch,
                                          clearedAt, calls>>

\* The construction started by run r settles and line 257 resumes.
SessionSettles(r, ok) ==
    /\ pc[r] = "awaitSession"
    /\ ~LoopReady
    /\ UNCHANGED editorVars
    /\ construction' = [construction EXCEPT
           ![runSession[r]] = IF ok THEN "fulfilled" ELSE "rejected"]
    /\ SetBatch(AfterSession(BatchState, r, ok))
    /\ UNCHANGED <<inpaintSessionPromise, createdBy, hasDispose, disposed,
                   thenDispose, epoch, startEpoch, clearedAt, calls>>

\* createImageBitmap settles for item j of run r.
DecodeSettles(r, j, ok, maskOk) ==
    /\ phase[r][j] = "decode"
    /\ ~LoopReady
    /\ UNCHANGED editorVars
    /\ SetBatch(AfterDecode(BatchState, r, j, ok, maskOk))
    /\ UNCHANGED sessionVars

\* inpaintWithSession settles for item j of run r.
InferSettles(r, j, res) ==
    /\ phase[r][j] = "infer"
    /\ ~LoopReady
    /\ UNCHANGED editorVars
    /\ SetBatch(AfterInfer(BatchState, r, j, res))
    /\ UNCHANGED sessionVars

\* The fetch of the result and imageDB.saveImage settle.
SaveSettles(r, j, ok) ==
    /\ phase[r][j] = "save"
    /\ ~LoopReady
    /\ UNCHANGED editorVars
    /\ SetBatch(AfterSave(BatchState, r, j, ok))
    /\ UNCHANGED sessionVars

\* The idle callback of the finally block fires.
IdleCallback(r, j) ==
    /\ phase[r][j] \in {"cleanupReturn", "cleanupThrow"}
    /\ ~LoopReady
    /\ UNCHANGED editorVars
    /\ SetBatch(AfterIdle(BatchState, r, j))
    /\ UNCHANGED sessionVars

\* The await of line 267 resumes.
ResumeAfterItem(r) ==
    /\ pc[r] = "awaitItem"
    /\ ItemSettled(BatchState, r)
    /\ SetBatch(AfterItem(BatchState, r))
    /\ UNCHANGED editorVars
    /\ UNCHANGED sessionVars

\* The timer of line 287 fires: the next iteration.
LoopYieldDone(r) ==
    /\ pc[r] = "loopYield"
    /\ ~LoopReady
    /\ UNCHANGED editorVars
    /\ SetBatch(LoopTop(BatchState, r, i[r] + 1))
    /\ UNCHANGED sessionVars

\* ProcessingOverlay onCancel, lines 487-490.
OnCancel ==
    /\ route = "home"
    /\ batchProgress # Null
    /\ ~LoopReady
    /\ UNCHANGED editorVars
    /\ SetBatch([BatchState EXCEPT
           !.batchProgress = Null,
           !.cancelled = [r \in Runs |->
               cancelled[r] \/ pc[r] \notin {"idle", "done"}]])
    /\ UNCHANGED sessionVars

\* DownloadPage goBack: history.back() from #download.
GoBack ==
    /\ route = "download"
    /\ ~LoopReady
    /\ UNCHANGED editorVars
    /\ SetBatch([BatchState EXCEPT !.route = "home"])
    /\ UNCHANGED sessionVars

\* ------------------------------------------------------------------------
\* src/hooks/useCanvasOptimization.ts: the draw scheduler
\*
\* The operators below are the code as functions from the scheduler state d
\* (a record of the variables above) to the scheduler state after it.
\* ------------------------------------------------------------------------

\* priority values: the default 1 and a higher one.
Priorities == {1, 2}
ThunkKinds == {"paint", "throw", "clear", "submit"}
\* The time, in milliseconds, that passes between two events: half a
\* minimum frame interval, or a whole one.
Ticks == {ThrottleMs \div 2, ThrottleMs}

SchedState ==
    [mounted |-> mounted, enableBatching |-> enableBatching,
     offscreenCanvas |-> offscreenCanvas, visible |-> visible,
     operationQueue |-> operationQueue, frameId |-> frameId,
     pendingFrames |-> pendingFrames, sinceLastDraw |-> sinceLastDraw,
     drawCalls |-> drawCalls, skippedFrames |-> skippedFrames, ops |-> ops,
     drawLog |-> drawLog, batches |-> batches, dropped |-> dropped]

SetSched(d, handler) ==
    /\ mounted' = d.mounted
    /\ enableBatching' = d.enableBatching
    /\ offscreenCanvas' = d.offscreenCanvas
    /\ visible' = d.visible
    /\ operationQueue' = d.operationQueue
    /\ frameId' = d.frameId
    /\ pendingFrames' = d.pendingFrames
    /\ sinceLastDraw' = d.sinceLastDraw
    /\ drawCalls' = d.drawCalls
    /\ skippedFrames' = d.skippedFrames
    /\ ops' = d.ops
    /\ drawLog' = d.drawLog
    /\ batches' = d.batches
    /\ dropped' = d.dropped
    /\ step' = handler

\* The priority and the thunk of the operation id; the operations above
\* MaxOps are those submitted by the "submit" thunks.
PriorityOf(d, id) ==
    IF id > MaxOps THEN d.ops[id - MaxOps].priority ELSE d.ops[id].priority

KindOf(d, id) == IF id > MaxOps THEN "paint" ELSE d.ops[id].kind

\* The ids of the thunks run so far.
Ran(d) == {d.drawLog[k].id : k \in 1..Len(d.drawLog)}

\* The operations submitted so far.
Submitted(d) ==
    (1..Len(d.ops)) \cup {id + MaxOps : id \in {x \in Ran(d) :
                                               KindOf(d, x) = "submit"}}

\* Array.prototype.sort with the comparator b.priority - a.priority: a
\* stable sort by descending priority.
InsertByPriority(d, q, id) ==
    LET before == {k \in 1..Len(q) :
                      PriorityOf(d, q[k]) >= PriorityOf(d, id)}
        n == IF before = {} THEN 0
             ELSE CHOOSE k \in before : \A m \in before : m <= k
    IN  SubSeq(q, 1, n) \o <<id>> \o SubSeq(q, n + 1, Len(q))

RECURSIVE SortByPriority(_, _)
SortByPriority(d, q) ==
    IF q = <<>>
       THEN <<>>
       ELSE InsertByPriority(d, SortByPriority(d, SubSeq(q, 1, Len(q) - 1)),
                             q[Len(q)])

\* The queue left as it was pushed to.
QueueAfterPush_Unsorted(d, q) == q

\* throttledDraw, line 102: the queue after the push, sorted.
QueueAfterPush(d, q) == SortByPriority(d, q)

\* requestAnimationFrame(processOperationQueue), its handle stored in
\* frameId.current.
RequestFrame(d) ==
    [d EXCEPT !.frameId = "live", !.pendingFrames = @ + 1]

\* cancelAnimationFrame(frameId.current): a callback that has run already
\* is not affected.
CancelFrame(d) ==
    IF d.frameId = "live" THEN [d EXCEPT !.pendingFrames = @ - 1,
                                         !.frameId = "stale"]
                          ELSE d

\* clearQueue, lines 189-196.
ClearQueue(d) ==
    LET e == [d EXCEPT !.operationQueue = <<>>,
                       !.dropped = @ \cup (Submitted(d) \ Ran(d))]
    IN  IF e.frameId # "null"
           THEN [CancelFrame(e) EXCEPT !.frameId = "null"]
           ELSE e

\* throttledDraw, lines 93-109: the batching path.
Enqueue(d, id) ==
    LET e == [d EXCEPT !.operationQueue =
                           QueueAfterPush(d, Append(d.operationQueue, id))]
    IN  IF e.frameId = "null" THEN RequestFrame(e) ELSE e

\* throttledDraw, lines 77-90, for a paint thunk: it is run at once. The
\* thunks of the editor paint on the context of the visible canvas
\* (CanvasEditor.tsx lines 71-106).
PaintNow(d, id) ==
    [d EXCEPT !.batches = @ + 1,
              !.visible = @ \cup {id},
              !.drawLog = Append(@, [id |-> id, batch |-> d.batches + 1]),
              !.drawCalls = @ + 1,
              !.sinceLastDraw = 0]

\* operation(): the thunk of the operation id runs, in the batch d.batches.
RunThunk(d, id) ==
    LET e == [d EXCEPT !.drawLog =
                           Append(@, [id |-> id, batch |-> d.batches])]
    IN  CASE KindOf(d, id) = "clear" -> ClearQueue(e)
          [] KindOf(d, id) = "submit" ->
                 IF d.enableBatching THEN Enqueue(e, id + MaxOps)
                                     ELSE PaintNow(e, id + MaxOps)
          [] KindOf(d, id) = "paint" -> [e EXCEPT !.visible = @ \cup {id}]
          [] OTHER -> e

\* The thunk run inside the call whatever enableBatching is.
ThrottledDraw_NoBatching(d, id) ==
    LET e == RunThunk([d EXCEPT !.batches = @ + 1], id)
    IN  IF KindOf(d, id) = "throw"
           THEN e
           ELSE [e EXCEPT !.drawCalls = @ + 1, !.sinceLastDraw = 0]

\* throttledDraw, lines 71-112. Without batching the thunk runs inside the
\* call; an exception of the thunk leaves the call before the statistics
\* and lastDrawTime are updated.
ThrottledDraw(d, id) ==
    IF d.enableBatching
       THEN Enqueue(d, id)
       ELSE LET e == RunThunk([d EXCEPT !.batches = @ + 1], id)
            IN  IF KindOf(d, id) = "throw"
                   THEN e
                   ELSE [e EXCEPT !.drawCalls = @ + 1, !.sinceLastDraw = 0]

\* processOperationQueue, lines 145-147: operations.forEach from the k-th
\* operation on; an exception ends the forEach.
RECURSIVE RunThunks(_, _, _)
RunThunks(d, operations, k) ==
    IF k > Len(operations)
       THEN d
       ELSE IF KindOf(d, operations[k]) = "throw"
               THEN RunThunk(d, operations[k])
               ELSE RunThunks(RunThunk(d, operations[k]), operations, k + 1)

\* The test of lines 119-123 dropped.
TooEarly_Never(d) == FALSE

\* processOperationQueue, line 119: less than throttleMs since the last draw.
TooEarly(d) == d.sinceLastDraw < ThrottleMs

\* processOperationQueue, lines 149-162: the visible canvas is cleared and
\* the offscreen canvas is drawn on it.
Transfer(d) == [d EXCEPT !.visible = d.offscreenCanvas.painted]

\* processOperationQueue, lines 131-185: the queue is not empty. canvasOk
\* says that canvasRef.current is there and gives a 2D context; the transfer
\* is reached when no thunk has thrown.
Drain(d, canvasOk) ==
    LET operations == d.operationQueue
        e == [d EXCEPT !.operationQueue = <<>>]
        threw == \E k \in 1..Len(operations) :
                     KindOf(d, operations[k]) = "throw"
    IN  IF ~(d.offscreenCanvas.exists \/ canvasOk)
           THEN e
           ELSE LET r == RunThunks([e EXCEPT !.batches = @ + 1],
                                   operations, 1)
                    f == IF ~threw /\ r.offscreenCanvas.exists /\ canvasOk
                            THEN Transfer(r) ELSE r
                    g == [f EXCEPT !.drawCalls = @ + 1, !.sinceLastDraw = 0]
                IN  IF g.operationQueue # <<>>
                       THEN RequestFrame(g)
                       ELSE [g EXCEPT !.frameId = "null"]

\* processOperationQueue, lines 115-186, run as a frame callback: d is the
\* state in which the callback starts.
ProcessOperationQueue(d, canvasOk) ==
    IF TooEarly(d)
       THEN RequestFrame([d EXCEPT !.skippedFrames = @ + 1])
       ELSE IF d.operationQueue = <<>>
               THEN [d EXCEPT !.frameId = "null"]
               ELSE Drain(d, canvasOk)

\* The browser takes a frame callback off its list and runs it: the oldest
\* one, which is the one frameId.current names only when it is the only one.
FrameFired(d) ==
    [d EXCEPT !.pendingFrames = @ - 1,
              !.frameId = IF d.frameId = "live" /\ d.pendingFrames = 1
                             THEN "stale" ELSE @]

\* The component that uses the hook is mounted, with its options; the
\* effect of lines 44-54 creates the offscreen canvas.
Mount(batching, offscreen) ==
    /\ step = "none"
    /\ SetSched([SchedState EXCEPT !.mounted = TRUE,
                                   !.enableBatching = batching,
                                   !.offscreenCanvas.exists = offscreen],
                "mount")
    /\ UNCHANGED <<sessionVars, batchVars, coordVars, strokeVars, utilVars, poolVars>>

\* The editor calls draw(operation, priority).
Draw(priority, kind) ==
    /\ mounted
    /\ Len(ops) < MaxOps
    /\ SetSched(ThrottledDraw(
                    [SchedState EXCEPT
                        !.ops = Append(@, [priority |-> priority,
                                           kind |-> kind])],
                    Len(ops) + 1),
                "draw")
    /\ UNCHANGED <<sessionVars, batchVars, coordVars, strokeVars, utilVars, poolVars>>

\* A frame boundary: a requested frame callback runs.
Frame(canvasOk) ==
    /\ pendingFrames > 0
    /\ TooEarly(SchedState) => skippedFrames < MaxSkips
    /\ SetSched(ProcessOperationQueue(FrameFired(SchedState), canvasOk),
                IF TooEarly(SchedState) THEN "skip" ELSE "frame")
    /\ UNCHANGED <<sessionVars, batchVars, coordVars, strokeVars, utilVars, poolVars>>

\* The editor calls clearQueue().
Clear ==
    /\ mounted
    /\ SetSched(ClearQueue(SchedState), "clear")
    /\ UNCHANGED <<sessionVars, batchVars, coordVars, strokeVars, utilVars, poolVars>>

\* Time passes.
Tick(ms) ==
    /\ step # "none"
    /\ sinceLastDraw < ThrottleMs
    /\ SetSched([SchedState EXCEPT !.sinceLastDraw =
                    IF @ + ms > ThrottleMs THEN ThrottleMs ELSE @ + ms],
                "tick")
    /\ UNCHANGED <<sessionVars, batchVars, coordVars, strokeVars, utilVars, poolVars>>

\* The cleanup of the effect of lines 225-231.
Unmount ==
    /\ mounted
    /\ SetSched([CancelFrame(SchedState) EXCEPT !.mounted = FALSE], "unmount")
    /\ UNCHANGED <<sessionVars, batchVars, coordVars, strokeVars, utilVars, poolVars>>

\* ------------------------------------------------------------------------
\* src/utils/coordinateTransform.ts
\*
\* A number is an exact fraction <<n, d>> with d > 0 in lowest terms, so
\* that equal numbers are equal values.
\* ------------------------------------------------------------------------

RECURSIVE Gcd(_, _)
Gcd(a, b) == IF b = 0 THEN a ELSE Gcd(b, a % b)

Abs(n) == IF n < 0 THEN -n ELSE n

Num(n, d) == LET g == Gcd(Abs(n), d) IN <<n \div g, d \div g>>

Zero == Num(0, 1)
One == Num(1, 1)

\* a * k and a / k for an integer k (k > 0 for the division).
Times(a, k) == Num(a[1] * k, a[2])
Over(a, k) == Num(a[1], a[2] * k)

Less(a, b) == a[1] * b[2] < b[1] * a[2]

\* Math.min and Math.max.
MathMin(a, b) == IF Less(b, a) THEN b ELSE a
MathMax(a, b) == IF Less(a, b) THEN b ELSE a

\* The sizes of a canvas or an image: clientWidth and clientHeight, or width
\* and height; 0 is the size of a canvas that is not laid out.
Sizes == [width : 0..MaxSize, height : 0..MaxSize]
PositiveSizes == [width : 1..MaxSize, height : 1..MaxSize]

\* The coordinate returned as it came.
ClampRelativeCoordinate_NoClamp(coord) == coord

\* clampRelativeCoordinate, lines 90-104.
ClampRelativeCoordinate(coord) ==
    [x |-> MathMax(Zero, MathMin(One, coord.x)),
     y |-> MathMax(Zero, MathMin(One, coord.y))]

\* canvasToRelative, lines 122-128: the test that throws.
CanvasSizeInvalid(canvasElement) ==
    canvasElement.width = 0 \/ canvasElement.height = 0

\* canvasToRelative, lines 130-135, for a canvas of valid size.
CanvasToRelative(canvasX, canvasY, canvasElement) ==
    ClampRelativeCoordinate([x |-> Over(canvasX, canvasElement.width),
                             y |-> Over(canvasY, canvasElement.height)])

\* Both coordinates scaled by the width.
RelativeToImage_WidthOnly(relativeX, relativeY, imageSize) ==
    [x |-> Times(relativeX, imageSize.width),
     y |-> Times(relativeY, imageSize.width)]

\* relativeToImage, lines 163-170.
RelativeToImage(relativeX, relativeY, imageSize) ==
    [x |-> Times(relativeX, imageSize.width),
     y |-> Times(relativeY, imageSize.height)]

\* The relative coordinates k / MaxDen, k = 0 .. MaxDen.
RelativeCoords == {Num(k, MaxDen) : k \in 0..MaxDen}

\* Display coordinates: -0.3, 1.4 and 0.5 times a width or a height.
DisplayCoords ==
    {Times(f, k) : f \in {Num(-3, 10), Num(14, 10), Num(1, 2)},
                   k \in 1..MaxSize}

\* A caller converts a display point.
CallCanvasToRelative(x, y, size) ==
    /\ coordCall.op = "none"
    /\ coordCall' = [op |-> "canvasToRelative",
                     point |-> [x |-> x, y |-> y], size |-> size]
    /\ IF CanvasSizeInvalid(size)
          THEN /\ coordThrew' = TRUE
               /\ UNCHANGED coordResult
          ELSE /\ coordThrew' = FALSE
               /\ coordResult' = CanvasToRelative(x, y, size)
    /\ UNCHANGED <<sessionVars, batchVars, schedVars, strokeVars, utilVars, poolVars>>

\* A caller converts a relative point to the pixels of an image.
CallRelativeToImage(x, y, size) ==
    /\ coordCall.op = "none"
    /\ coordCall' = [op |-> "relativeToImage",
                     point |-> [x |-> x, y |-> y], size |-> size]
    /\ coordThrew' = FALSE
    /\ coordResult' = RelativeToImage(x, y, size)
    /\ UNCHANGED <<sessionVars, batchVars, schedVars, strokeVars, utilVars, poolVars>>

\* The caller is done with the result.
CoordDone ==
    /\ coordCall.op # "none"
    /\ coordCall' = [op |-> "none", point |-> [x |-> Zero, y |-> Zero],
                     size |-> [width |-> 0, height |-> 0]]
    /\ coordResult' = [x |-> Zero, y |-> Zero]
    /\ coordThrew' = FALSE
    /\ UNCHANGED <<sessionVars, batchVars, schedVars, strokeVars, utilVars, poolVars>>

\* A caller converts a relative point to the pixels of a size and back.
CallRoundTrip(x, y, size) ==
    /\ coordCall.op = "none"
    /\ coordCall' = [op |-> "roundTrip",
                     point |-> [x |-> x, y |-> y], size |-> size]
    /\ coordThrew' = FALSE
    /\ coordResult' = LET t == RelativeToImage(x, y, size)
                      IN  CanvasToRelative(t.x, t.y, size)
    /\ UNCHANGED <<sessionVars, batchVars, schedVars, strokeVars, utilVars, poolVars>>

\* ------------------------------------------------------------------------
\* src/Editor.tsx and src/components/CanvasEditor.tsx: the strokes
\*
\* The repaint that a handler requests with draw() is the draw scheduler's
\* and is not repeated here.
\* ------------------------------------------------------------------------

\* imageMasks.get(currentFileIndex) || []
PendingMasks == imageMasks[currentFileIndex]

\* The number of strokes committed, over all the images.
RECURSIVE StrokeCount(_)
StrokeCount(f) ==
    IF f < 0 THEN 0 ELSE Len(imageMasks[f]) + StrokeCount(f - 1)

\* { pts: [], src: '' }
EmptyLine == [pts |-> <<>>, drawnOn |-> {}]

\* Where the pointer is, in the logical pixels of a canvas of the given
\* size: inside the canvas, or to the left of it and below it.
PointerPosition(place, size) ==
    IF place = "inside"
    THEN [x |-> Over(Num(size.width, 1), 2), y |-> Over(Num(size.height, 1), 2)]
    ELSE [x |-> Num(-1, 1), y |-> Num(size.height + 1, 1)]

\* Where the pointer is when it moves.
PointerPlaces == {"inside", "outside"}

\* The logical sizes of the editor's canvas tried: the widest, square or
\* one pixel high.
CanvasSizes == {[width |-> MaxSize, height |-> h] : h \in {1, MaxSize}}

\* The line kept in canvas coordinates.
ConvertLineToRelative_Raw(line, canvasElement) == line

\* convertLineToRelative, coordinateTransform.ts lines 191-204.
ConvertLineToRelative(line, canvasElement) ==
    [line EXCEPT !.pts = [k \in 1..Len(line.pts) |->
                             CanvasToRelative(line.pts[k].x, line.pts[k].y,
                                              canvasElement)]]

\* CanvasEditor.tsx lines 444-449 (onPaint) and 472-485 (onTouchMove): the
\* point is pushed to the last line.
LineAfterPaint(point) ==
    [pts |-> Append(lines.pts, point),
     drawnOn |-> lines.drawnOn \cup {currentFileIndex}]

\* All but the last element of a list: pop().
Pop(list) == SubSeq(list, 1, Len(list) - 1)

\* undo takes the branch of the strokes whatever the strokes are.
UndoesStroke_Always(pending) == TRUE

\* undo, Editor.tsx line 712: the test of the first branch.
UndoesStroke(pending) == Len(pending) > 0

\* setContext: the canvas of the editor is set up.
SetContext(size) ==
    /\ EditorAccessible
    /\ ~context
    /\ context' = TRUE
    /\ canvasSize' = size
    /\ UNCHANGED <<imageMasks, lines, dragging, renders, lastUndo>>
    /\ UNCHANGED processVars
    /\ UNCHANGED <<sessionVars, batchVars, schedVars, coordVars, utilVars, poolVars>>

\* onPointerStart by the mouse, CanvasEditor.tsx lines 488-499: the
\* listeners of mousemove and mouseup are added.
PointerStart ==
    /\ EditorAccessible
    /\ context
    /\ ~dragging
    /\ dragging' = TRUE
    /\ UNCHANGED <<context, canvasSize, imageMasks, lines, renders, lastUndo>>
    /\ UNCHANGED processVars
    /\ UNCHANGED <<sessionVars, batchVars, schedVars, coordVars, utilVars, poolVars>>

\* onMouseDrag, CanvasEditor.tsx lines 452-456, and onTouchMove, lines
\* 472-486; touch is TRUE for onTouchMove, which needs no listener added.
Paint(place, touch) ==
    /\ EditorAccessible
    /\ context
    /\ touch \/ dragging
    /\ Len(lines.pts) < MaxDrawn
    /\ lines' = LineAfterPaint(PointerPosition(place, canvasSize))
    /\ UNCHANGED <<context, canvasSize, imageMasks, dragging, renders,
                   lastUndo>>
    /\ UNCHANGED processVars
    /\ UNCHANGED <<sessionVars, batchVars, schedVars, coordVars, utilVars, poolVars>>

\* onPointerUp, CanvasEditor.tsx lines 458-470, with handleStopDrawing,
\* Editor.tsx lines 591-656; touch is TRUE for touchend.
PointerUp(touch) ==
    /\ EditorAccessible
    /\ context
    /\ touch \/ dragging
    /\ lines.pts # <<>>
    /\ StrokeCount(NumFiles - 1) < MaxStrokes
    /\ dragging' = FALSE
    /\ imageMasks' = [imageMasks EXCEPT ![currentFileIndex] =
           Append(PendingMasks, ConvertLineToRelative(lines, canvasSize))]
    /\ lines' = EmptyLine
    /\ showBatchButton' = TRUE
    /\ UNCHANGED <<context, canvasSize, renders, lastUndo,
                   currentImageProcessed, processedFile>>
    /\ UNCHANGED <<sessionVars, batchVars, schedVars, coordVars, utilVars, poolVars>>

\* handleDeleteMask, Editor.tsx lines 675-697. The pointer effect of
\* CanvasEditor.tsx runs again when onStopDrawing changes and its cleanup
\* removes the listeners of mousemove and mouseup.
DeleteMask(maskIndex) ==
    /\ EditorAccessible
    /\ maskIndex \in 1..Len(PendingMasks)
    /\ imageMasks' = [imageMasks EXCEPT ![currentFileIndex] =
           SubSeq(PendingMasks, 1, maskIndex - 1)
               \o SubSeq(PendingMasks, maskIndex + 1, Len(PendingMasks))]
    /\ dragging' = FALSE
    /\ showBatchButton' = (showBatchButton /\ Len(PendingMasks) > 1)
    /\ UNCHANGED <<context, canvasSize, lines, renders, lastUndo,
                   currentImageProcessed, processedFile>>
    /\ UNCHANGED <<sessionVars, batchVars, schedVars, coordVars, utilVars, poolVars>>

\* handleClearMarks, Editor.tsx lines 699-709.
ClearMarks ==
    /\ EditorAccessible
    /\ PendingMasks # <<>> \/ currentFileIndex < NumFiles - 1
    /\ imageMasks' = [imageMasks EXCEPT ![currentFileIndex] = <<>>]
    /\ lines' = EmptyLine
    /\ dragging' = FALSE
    /\ showBatchButton' = FALSE
    /\ currentImageProcessed' = FALSE
    /\ processedFile' = -1
    /\ UNCHANGED <<context, canvasSize, renders, lastUndo>>
    /\ UNCHANGED <<sessionVars, batchVars, schedVars, coordVars, utilVars, poolVars>>

\* undo, Editor.tsx lines 711-744, called by the undo button (shown when
\* there is a render) or by the keydown handler of lines 746-761 (which
\* returns when there is none).
Undo ==
    /\ EditorAccessible
    /\ renders # <<>>
    /\ IF UndoesStroke(PendingMasks)
          THEN /\ imageMasks' = [imageMasks EXCEPT
                                    ![currentFileIndex] = Pop(PendingMasks)]
               /\ showBatchButton' =
                      (showBatchButton /\ Len(PendingMasks) > 1)
               /\ lastUndo' = "stroke"
               /\ UNCHANGED <<lines, renders>>
          ELSE /\ lines' = EmptyLine
               /\ renders' = Pop(renders)
               /\ lastUndo' = "render"
               /\ UNCHANGED <<imageMasks, showBatchButton>>
    /\ dragging' = FALSE
    /\ UNCHANGED <<context, canvasSize, currentImageProcessed, processedFile>>
    /\ UNCHANGED <<sessionVars, batchVars, schedVars, coordVars, utilVars, poolVars>>

\* The process button of the toolbar is rendered: EditorToolbar.tsx
\* line 87.
ProcessButtonShown == showBatchButton /\ ~currentImageProcessed

\* processBatch, Editor.tsx line 514: the image given to the inference, a
\* file standing for the image itself and for a result produced for it.
CurrentImage == IF renders # <<>> THEN renders[Len(renders)]
                                  ELSE currentFileIndex

\* processBatch, Editor.tsx lines 502-557, called by the process button:
\* the current image is processed with its strokes; the editor takes no
\* pointer input meanwhile. The button is hidden and the image is marked as
\* processed before the try block; a result is appended to renders and the
\* lines are reset; the strokes are kept. ok is FALSE when the creation of
\* the mask or the inference throws.
ProcessBatch(ok) ==
    /\ EditorAccessible
    /\ context
    /\ ProcessButtonShown
    /\ PendingMasks # <<>>
    /\ Len(renders) < MaxRenders
    /\ showBatchButton' = FALSE
    /\ currentImageProcessed' = TRUE
    /\ processedFile' = currentFileIndex
    /\ IF ok
          THEN /\ renders' = Append(renders, currentFileIndex)
               /\ lines' = EmptyLine
          ELSE UNCHANGED <<renders, lines>>
    /\ dragging' = FALSE
    /\ UNCHANGED <<context, canvasSize, imageMasks, lastUndo>>
    /\ UNCHANGED <<sessionVars, batchVars, schedVars, coordVars, utilVars, poolVars>>

\* ------------------------------------------------------------------------
\* src/types/canvas.ts (drawLines) and src/utils/maskUtils.ts
\* (createMaskCanvas)
\*
\* A size that may be undefined is <<>> (undefined) or <<n>>. A canvas is
\* its width and height, <<>> for a dimension left at the default of a new
\* canvas, and the list of the paths stroked on it.
\* ------------------------------------------------------------------------

\* Line.size: undefined, 0 or a width.
LineSizes == {<<>>, <<0>>, <<MaxSize>>}

\* Lines in the pixels of an image, with 0 to MaxPts points.
AbsoluteLines ==
    {[pts |-> [k \in 1..n |-> [x |-> k, y |-> k]], size |-> s] :
        n \in 0..MaxPts, s \in LineSizes}

MaskLists == UNION {[1..n -> AbsoluteLines] : n \in 0..MaxMasks}

\* MaskCanvasOptions: width and height, negative, zero or positive.
TargetSizes == [width : -1..MaxSize, height : -1..MaxSize]

NoCanvas == [width |-> <<>>, height |-> <<>>, painted |-> <<>>]

NoMaskCall ==
    [op |-> "none", masks |-> <<>>, options |-> [width |-> 0, height |-> 0],
     returned |-> FALSE, canvas |-> NoCanvas, threw |-> FALSE]

\* No line is skipped.
SkipsLine_Never(line) == FALSE

\* drawLines, line 16: !line?.pts.length || !line.size.
SkipsLine(line) ==
    Len(line.pts) = 0 \/ line.size = <<>> \/ line.size[1] = 0

\* drawLines, lines 7-26: each line that is not skipped is stroked with its
\* size as lineWidth.
RECURSIVE DrawLines(_, _)
DrawLines(ctx, lineList) ==
    IF lineList = <<>>
       THEN ctx
       ELSE LET line == Head(lineList)
            IN  DrawLines(IF SkipsLine(line)
                             THEN ctx
                             ELSE [ctx EXCEPT !.painted =
                                      Append(@, [pts |-> line.pts,
                                                 lineWidth |-> line.size])],
                          Tail(lineList))

\* canvas.width = v: width is an unsigned long limited to non-negative
\* numbers, a negative value leaves the default in place.
CanvasDimension(v) == IF v >= 0 THEN <<v>> ELSE <<>>

\* mask.pts.length > 0, maskUtils.ts line 45.
HasPoints(mask) == Len(mask.pts) > 0

\* createMaskCanvas, maskUtils.ts lines 24-49: the canvas is created with
\* the size asked for and filled with the background, and the masks that
\* have points are drawn with drawLines.
CreateMaskCanvas(masks, options) ==
    DrawLines([width |-> CanvasDimension(options.width),
               height |-> CanvasDimension(options.height),
               painted |-> <<>>],
              SelectSeq(masks, HasPoints))

\* A caller composites a mask: the function returns its canvas, no
\* statement of it throws for these arguments.
CallCreateMaskCanvas(masks, options) ==
    /\ maskCall.op = "none"
    /\ maskCall' = [op |-> "createMaskCanvas", masks |-> masks,
                    options |-> options, returned |-> TRUE,
                    canvas |-> CreateMaskCanvas(masks, options),
                    threw |-> FALSE]
    /\ UNCHANGED <<nameCall, dbStore, dbNext, page, exportRun, clearTimers,
                   exportStats>>
    /\ UNCHANGED <<sessionVars, batchVars, schedVars, coordVars, strokeVars,
                   poolVars>>

\* The caller is done with the canvas.
MaskDone ==
    /\ maskCall.op # "none"
    /\ maskCall' = NoMaskCall
    /\ UNCHANGED <<nameCall, dbStore, dbNext, page, exportRun, clearTimers,
                   exportStats>>
    /\ UNCHANGED <<sessionVars, batchVars, schedVars, coordVars, strokeVars,
                   poolVars>>

\* ------------------------------------------------------------------------
\* src/utils.ts: getProcessedFileName
\*
\* A string is the sequence of its characters.
\* ------------------------------------------------------------------------

\* An ordinary character, one matched by /[,;:]/, white space, the dot.
Chars == {"a", ",", " ", "."}
UnsafeChars == {",", ";", ":"}
WhiteSpace == {" "}

\* FILENAME_SUFFIX_PROCESSED, constants.ts line 21.
FilenameSuffixProcessed ==
    <<"_", "p", "r", "o", "c", "e", "s", "s", "e", "d">>
\* '.png', the extension of a name that has none.
DefaultExtension == <<".", "p", "n", "g">>
Ellipsis == <<".", ".", ".">>

Affixes == UNION {[1..n -> Chars] : n \in 0..MaxAffix}
Filling(n) == [k \in 1..n |-> "a"]
\* The file names tried: short ones, and long ones around
\* MaxBaseNameLength characters.
FileNames ==
    {h \o Filling(n) \o tl :
        h \in Affixes, tl \in Affixes,
        n \in {0, MaxBaseNameLength - 3, MaxBaseNameLength}}

NoNameCall == [called |-> FALSE, name |-> <<>>, result |-> <<>>]

\* String.prototype.lastIndexOf: the index, from 0, of the last c, or -1.
LastIndexOf(s, c) ==
    LET found == {k \in 1..Len(s) : s[k] = c}
    IN  IF found = {} THEN -1
        ELSE (CHOOSE k \in found : \A m \in found : m <= k) - 1

\* String.prototype.slice(from, to) and slice(from), indices from 0.
Slice(s, from, to) == SubSeq(s, from + 1, IF to > Len(s) THEN Len(s) ELSE to)
SliceFrom(s, from) == SubSeq(s, from + 1, Len(s))

\* replace(/[,;:]/g, '_')
ReplacePunctuation(s) ==
    [k \in 1..Len(s) |-> IF s[k] \in UnsafeChars THEN "_" ELSE s[k]]

\* The indices of the characters of s that are not white space.
Inked(s) == {k \in 1..Len(s) : s[k] \notin WhiteSpace}

\* String.prototype.trim: s from its first to its last character that is
\* not white space.
Trim(s) ==
    IF Inked(s) = {}
       THEN <<>>
       ELSE SubSeq(s, CHOOSE k \in Inked(s) : \A m \in Inked(s) : k <= m,
                      CHOOSE k \in Inked(s) : \A m \in Inked(s) : m <= k)

\* The characters of s at the indices of keep between lo and hi, in order.
RECURSIVE Pick(_, _, _, _)
Pick(s, keep, lo, hi) ==
    IF lo > hi
       THEN <<>>
       ELSE IF lo = hi
               THEN IF lo \in keep THEN <<s[lo]>> ELSE <<>>
               ELSE Pick(s, keep, lo, (lo + hi) \div 2)
                        \o Pick(s, keep, (lo + hi) \div 2 + 1, hi)

\* replace(/\s+/g, ' '): every run of white space becomes one space, which
\* takes the place of the first character of the run.
MergeSpaces(s) ==
    LET firsts == {k \in 1..Len(s) :
                      s[k] \in WhiteSpace => (k = 1 \/ k - 1 \in Inked(s))}
        picked == Pick(s, firsts, 1, Len(s))
    IN  [k \in 1..Len(picked) |->
            IF picked[k] \in WhiteSpace THEN " " ELSE picked[k]]

\* The base name cut to MaxBaseNameLength characters, no ellipsis added.
TruncatedBaseName_NoEllipsis(cleanBaseName) ==
    IF Len(cleanBaseName) > MaxBaseNameLength
       THEN Trim(Slice(cleanBaseName, 0, MaxBaseNameLength))
       ELSE cleanBaseName

\* getProcessedFileName, lines 92-96.
TruncatedBaseName(cleanBaseName) ==
    IF Len(cleanBaseName) > MaxBaseNameLength
       THEN Trim(Slice(cleanBaseName, 0, MaxBaseNameLength)) \o Ellipsis
       ELSE cleanBaseName

\* getProcessedFileName, lines 75-101.
GetProcessedFileName(originalName, suffix) ==
    LET lastDotIndex == LastIndexOf(originalName, ".")
        baseName == IF lastDotIndex > 0
                       THEN Slice(originalName, 0, lastDotIndex)
                       ELSE originalName
        extension == IF lastDotIndex > 0
                        THEN SliceFrom(originalName, lastDotIndex)
                        ELSE DefaultExtension
        cleanBaseName == Trim(MergeSpaces(ReplacePunctuation(baseName)))
    IN  TruncatedBaseName(cleanBaseName) \o suffix \o extension

\* A caller derives the name of an output file.
CallGetProcessedFileName(originalName) ==
    /\ ~nameCall.called
    /\ nameCall' = [called |-> TRUE, name |-> originalName,
                    result |-> GetProcessedFileName(originalName,
                                                    FilenameSuffixProcessed)]
    /\ UNCHANGED <<maskCall, dbStore, dbNext, page, exportRun, clearTimers,
                   exportStats>>
    /\ UNCHANGED <<sessionVars, batchVars, schedVars, coordVars, strokeVars,
                   poolVars>>

\* The caller is done with the name.
NameDone ==
    /\ nameCall.called
    /\ nameCall' = NoNameCall
    /\ UNCHANGED <<maskCall, dbStore, dbNext, page, exportRun, clearTimers,
                   exportStats>>
    /\ UNCHANGED <<sessionVars, batchVars, schedVars, coordVars, strokeVars,
                   poolVars>>

\* ------------------------------------------------------------------------
\* src/utils/imageDatabase.ts (ImageDatabase) and
\* src/components/DownloadPage.tsx (downloadAll)
\* ------------------------------------------------------------------------

\* downloadFormat: 'original', or a format the blobs are converted to.
Formats == {"original", "webp"}

NoExport == [pc |-> "idle", format |-> "original", images |-> {},
             archived |-> 0]

\* The timer that clears the store is set also when the export fails.
TimersAfterFailure_ClearAnyway(timers, images) == Append(timers, images)

\* downloadAll, lines 172-175: the catch block logs and alerts.
TimersAfterFailure(timers, images) == timers

\* downloadAll, lines 166-171, after the archive was downloaded:
\* setTimeout(clearAll, 1000).
TimersAfterDownload(timers, images) == Append(timers, images)

\* A batch run saves a record: imageDB.saveImage, App.tsx lines 208-213.
StageRecord ==
    /\ dbNext < MaxRecords
    /\ dbNext' = dbNext + 1
    /\ dbStore' = dbStore \cup {dbNext + 1}
    /\ UNCHANGED <<maskCall, nameCall, page, exportRun, clearTimers,
                   exportStats>>
    /\ UNCHANGED <<sessionVars, batchVars, schedVars, coordVars, strokeVars,
                   poolVars>>

\* DownloadPage is mounted and loadImages reads the store, lines 25-45.
OpenPage ==
    /\ ~page.open
    /\ page' = [open |-> TRUE, images |-> dbStore, downloading |-> FALSE]
    /\ UNCHANGED <<maskCall, nameCall, dbStore, dbNext, exportRun,
                   clearTimers, exportStats>>
    /\ UNCHANGED <<sessionVars, batchVars, schedVars, coordVars, strokeVars,
                   poolVars>>

\* goBack, lines 181-183, while no export is in progress: the page is
\* unmounted; its timers stay.
ClosePage ==
    /\ page.open
    /\ exportRun.pc = "idle"
    /\ page' = [open |-> FALSE, images |-> {}, downloading |-> FALSE]
    /\ UNCHANGED <<maskCall, nameCall, dbStore, dbNext, exportRun,
                   clearTimers, exportStats>>
    /\ UNCHANGED <<sessionVars, batchVars, schedVars, coordVars, strokeVars,
                   poolVars>>

\* downloadAll, lines 133-150, up to its first await: the button is there
\* when images is not empty and is disabled while downloading. Without
\* conversion every image is put in the archive at once.
DownloadAll(format) ==
    /\ page.open
    /\ page.images # {}
    /\ ~page.downloading
    /\ exportStats.ok + exportStats.failed < MaxExports
    /\ page' = [page EXCEPT !.downloading = TRUE]
    /\ exportRun' = [pc |-> IF format = "original" THEN "zip" ELSE "convert",
                     format |-> format, images |-> page.images,
                     archived |-> IF format = "original"
                                     THEN Cardinality(page.images) ELSE 0]
    /\ UNCHANGED <<maskCall, nameCall, dbStore, dbNext, clearTimers,
                   exportStats>>
    /\ UNCHANGED <<sessionVars, batchVars, schedVars, coordVars, strokeVars,
                   poolVars>>

\* downloadAll, lines 172-177: catch and finally.
ExportFails ==
    /\ exportRun' = NoExport
    /\ page' = [page EXCEPT !.downloading = FALSE]
    /\ exportStats' = [exportStats EXCEPT !.failed = @ + 1]
    /\ clearTimers' = TimersAfterFailure(clearTimers, exportRun.images)
    /\ UNCHANGED <<maskCall, nameCall, dbStore, dbNext>>

\* convertImageFormat settles, lines 143-149.
ConvertSettles(ok) ==
    /\ exportRun.pc = "convert"
    /\ IF ok
          THEN /\ exportRun' =
                   [exportRun EXCEPT
                       !.archived = @ + 1,
                       !.pc = IF exportRun.archived + 1
                                     = Cardinality(exportRun.images)
                                 THEN "zip" ELSE "convert"]
               /\ UNCHANGED <<maskCall, nameCall, dbStore, dbNext, page,
                              clearTimers, exportStats>>
          ELSE ExportFails
    /\ UNCHANGED <<sessionVars, batchVars, schedVars, coordVars, strokeVars,
                   poolVars>>

\* zip.generateAsync settles, lines 152-177.
ZipSettles(ok) ==
    /\ exportRun.pc = "zip"
    /\ IF ok
          THEN /\ exportRun' = NoExport
               /\ page' = [page EXCEPT !.downloading = FALSE]
               /\ exportStats' = [exportStats EXCEPT !.ok = @ + 1]
               /\ clearTimers' =
                      TimersAfterDownload(clearTimers, exportRun.images)
               /\ UNCHANGED <<maskCall, nameCall, dbStore, dbNext>>
          ELSE ExportFails
    /\ UNCHANGED <<sessionVars, batchVars, schedVars, coordVars, strokeVars,
                   poolVars>>

\* The oldest timer fires: imageDB.clearAll(), imageDatabase.ts lines
\* 201-219; ok says whether the request of store.clear() succeeded.
ClearTimerFires(ok) ==
    /\ clearTimers # <<>>
    /\ clearTimers' = Tail(clearTimers)
    /\ IF ok
          THEN /\ dbStore' = {}
               /\ exportStats' = [exportStats EXCEPT !.clears = @ + 1]
          ELSE UNCHANGED <<dbStore, exportStats>>
    /\ UNCHANGED <<maskCall, nameCall, dbNext, page, exportRun>>
    /\ UNCHANGED <<sessionVars, batchVars, schedVars, coordVars, strokeVars,
                   poolVars>>

\* ------------------------------------------------------------------------
\* src/utils/memoryManager.ts (MemoryManager)
\* ------------------------------------------------------------------------

Mats == 1..MaxMats

\* The arguments rows and cols of getMat; 0 stands for a missing argument
\* too, which the code tests with !rows.
MatSizes == 0..1

\* rows and cols of new cv.Mat().
NewMatDims == [rows |-> 0, cols |-> 0]

\* getMat, lines 26-31: the test of matPool.find, handing out an item in use.
Compatible_InUse(item, dims, rows, cols) ==
    /\ rows = 0 \/ dims[item.mat].rows = rows
    /\ cols = 0 \/ dims[item.mat].cols = cols

\* getMat, lines 26-31: the test of matPool.find.
Compatible(item, dims, rows, cols) ==
    /\ ~item.inUse
    /\ rows = 0 \/ dims[item.mat].rows = rows
    /\ cols = 0 \/ dims[item.mat].cols = cols

\* Array.prototype.find: the index of the first item that passes, or 0.
Find(pool, Test(_)) ==
    IF \E k \in 1..Len(pool) : Test(pool[k])
       THEN CHOOSE k \in 1..Len(pool) :
                /\ Test(pool[k])
                /\ \A j \in 1..(k - 1) : ~Test(pool[j])
       ELSE 0

\* Array.prototype.filter.
Filter(pool, Keep(_)) == SelectSeq(pool, Keep)

\* safeDeletMat, lines 71-79: the Mats deleted after mat was passed.
SafeDeletMat(deleted, mat) == deleted \cup {mat}

\* cleanup, lines 88-94: the items the filter drops and deletes.
Expired(item, now) == ~item.inUse /\ now - item.lastUsed > MaxAge

\* forceCleanup, lines 139-145: the items the filter drops and deletes.
Unused(item) == ~item.inUse

\* The Mats of the items of pool that pass Test.
MatsOf(pool, Test(_)) ==
    {pool[k].mat : k \in {j \in 1..Len(pool) : Test(pool[j])}}

\* getMat, lines 24-51.
GetMat(rows, cols) ==
    LET IsCompatible(item) == Compatible(item, matDims, rows, cols)
        compatible == Find(matPool, IsCompatible)
    IN  /\ IF compatible # 0
              THEN /\ matHolders[matPool[compatible].mat] < MaxHolders
                   /\ matPool' = [matPool EXCEPT
                                      ![compatible].inUse = TRUE,
                                      ![compatible].lastUsed = poolClock]
                   /\ matHolders' = [matHolders EXCEPT
                                         ![matPool[compatible].mat] = @ + 1]
                   /\ UNCHANGED matCreated
              ELSE /\ matCreated < MaxMats
                   /\ matCreated' = matCreated + 1
                   /\ matPool' = IF Len(matPool) < MaxPoolSize
                                    THEN Append(matPool,
                                                [mat |-> matCreated + 1,
                                                 inUse |-> TRUE,
                                                 lastUsed |-> poolClock])
                                    ELSE matPool
                   /\ matHolders' = [matHolders EXCEPT
                                         ![matCreated + 1] = @ + 1]
        /\ UNCHANGED <<matDeleted, matDims, poolClock, cleanupTimer,
                       matDestroys>>
        /\ UNCHANGED <<sessionVars, batchVars, schedVars, coordVars,
                       strokeVars, utilVars>>

\* A holder of mat gives it a size (mat.create, or an operation of the
\* library that writes its result to mat).
SetMatSize(mat, rows, cols) ==
    /\ matHolders[mat] > 0
    /\ mat \notin matDeleted
    /\ matDims[mat] # [rows |-> rows, cols |-> cols]
    /\ matDims' = [matDims EXCEPT ![mat] = [rows |-> rows, cols |-> cols]]
    /\ UNCHANGED <<matPool, matCreated, matDeleted, matHolders, poolClock,
                   cleanupTimer, matDestroys>>
    /\ UNCHANGED <<sessionVars, batchVars, schedVars, coordVars, strokeVars,
                   utilVars>>

\* releaseMat, lines 56-66, called by a holder of mat.
ReleaseMat(mat) ==
    LET IsMat(item) == item.mat = mat
        poolItem == Find(matPool, IsMat)
    IN  /\ matHolders[mat] > 0
        /\ matHolders' = [matHolders EXCEPT ![mat] = @ - 1]
        /\ IF poolItem # 0
              THEN /\ matPool' = [matPool EXCEPT
                                      ![poolItem].inUse = FALSE,
                                      ![poolItem].lastUsed = poolClock]
                   /\ UNCHANGED matDeleted
              ELSE /\ matDeleted' = SafeDeletMat(matDeleted, mat)
                   /\ UNCHANGED matPool
        /\ UNCHANGED <<matCreated, matDims, poolClock, cleanupTimer,
                       matDestroys>>
        /\ UNCHANGED <<sessionVars, batchVars, schedVars, coordVars,
                       strokeVars, utilVars>>

\* One interval of the cleanup timer passes.
IntervalPasses ==
    /\ poolClock < MaxIntervals * CleanupInterval
    /\ poolClock' = poolClock + CleanupInterval
    /\ UNCHANGED <<matPool, matCreated, matDeleted, matHolders, matDims,
                   cleanupTimer, matDestroys>>
    /\ UNCHANGED <<sessionVars, batchVars, schedVars, coordVars, strokeVars,
                   utilVars>>

\* The timer of startCleanupTimer fires: cleanup, lines 84-97.
Cleanup ==
    LET IsExpired(item) == Expired(item, poolClock)
        Kept(item) == ~IsExpired(item)
    IN  /\ cleanupTimer
        /\ MatsOf(matPool, IsExpired) # {}
        /\ matDeleted' = matDeleted \cup MatsOf(matPool, IsExpired)
        /\ matPool' = Filter(matPool, Kept)
        /\ UNCHANGED <<matCreated, matHolders, matDims, poolClock,
                       cleanupTimer, matDestroys>>
        /\ UNCHANGED <<sessionVars, batchVars, schedVars, coordVars,
                       strokeVars, utilVars>>

\* The monitoring interval of setupMemoryMonitoring finds the heap above the
\* threshold: forceCleanup, lines 138-146.
ForceCleanup ==
    LET Kept(item) == ~Unused(item)
    IN  /\ MatsOf(matPool, Unused) # {}
        /\ matDeleted' = matDeleted \cup MatsOf(matPool, Unused)
        /\ matPool' = Filter(matPool, Kept)
        /\ UNCHANGED <<matCreated, matHolders, matDims, poolClock,
                       cleanupTimer, matDestroys>>
        /\ UNCHANGED <<sessionVars, batchVars, schedVars, coordVars,
                       strokeVars, utilVars>>

\* destroy, lines 178-189.
Destroy ==
    LET Pooled(item) == TRUE
    IN  /\ matDestroys = 0
        /\ matDestroys' = matDestroys + 1
        /\ cleanupTimer' = FALSE
        /\ matDeleted' = matDeleted \cup MatsOf(matPool, Pooled)
        /\ matPool' = <<>>
        /\ UNCHANGED <<matCreated, matHolders, matDims, poolClock>>
        /\ UNCHANGED <<sessionVars, batchVars, schedVars, coordVars,
                       strokeVars, utilVars>>

\* ------------------------------------------------------------------------
\* Specifications
\* ------------------------------------------------------------------------

Init ==
    /\ inpaintSessionPromise = 0
    /\ construction = [p \in SessionIds |-> "unborn"]
    /\ createdBy = [p \in SessionIds |-> "none"]
    /\ hasDispose = [p \in SessionIds |-> FALSE]
    /\ disposed = [p \in SessionIds |-> FALSE]
    /\ thenDispose = {}
    /\ epoch = 0
    /\ startEpoch = [p \in SessionIds |-> 0]
    /\ clearedAt = [p \in SessionIds |-> 0]
    /\ calls = <<>>
    /\ currentFileIndex = 0
    /\ batchProgress = Null
    /\ route = "home"
    /\ pc = [r \in Runs |-> "idle"]
    /\ job = [r \in Runs |-> [first |-> 0, total |-> 0, saveToDb |-> FALSE]]
    /\ runSession = [r \in Runs |-> 0]
    /\ i = [r \in Runs |-> 0]
    /\ phase = [r \in Runs |-> [j \in Items |-> "new"]]
    /\ refs = [r \in Runs |-> {}]
    /\ held = [r \in Runs |-> {}]
    /\ result = [r \in Runs |-> "none"]
    /\ outcome = [r \in Runs |-> "none"]
    /\ notifications = {}
    /\ progressCalls = [r \in Runs |-> <<>>]
    /\ thrown = [r \in Runs |-> {}]
    /\ succeeded = [r \in Runs |-> {}]
    /\ downloads = [r \in Runs |-> {}]
    /\ staged = [r \in Runs |-> {}]
    /\ cancelled = [r \in Runs |-> FALSE]
    /\ mounted = FALSE
    /\ enableBatching = FALSE
    /\ offscreenCanvas = [exists |-> FALSE, painted |-> {}]
    /\ visible = {}
    /\ operationQueue = <<>>
    /\ frameId = "null"
    /\ pendingFrames = 0
    /\ sinceLastDraw = ThrottleMs
    /\ drawCalls = 0
    /\ skippedFrames = 0
    /\ ops = <<>>
    /\ drawLog = <<>>
    /\ batches = 0
    /\ dropped = {}
    /\ step = "none"
    /\ maskCall = NoMaskCall
    /\ nameCall = NoNameCall
    /\ dbStore = {}
    /\ dbNext = 0
    /\ page = [open |-> FALSE, images |-> {}, downloading |-> FALSE]
    /\ exportRun = NoExport
    /\ clearTimers = <<>>
    /\ exportStats = [ok |-> 0, failed |-> 0, clears |-> 0]
    /\ matPool = <<>>
    /\ matCreated = 0
    /\ matDeleted = {}
    /\ matHolders = [mat \in Mats |-> 0]
    /\ matDims = [mat \in Mats |-> NewMatDims]
    /\ poolClock = 0
    /\ cleanupTimer = TRUE
    /\ matDestroys = 0
    /\ coordCall = [op |-> "none", point |-> [x |-> Zero, y |-> Zero],
                    size |-> [width |-> 0, height |-> 0]]
    /\ coordResult = [x |-> Zero, y |-> Zero]
    /\ coordThrew = FALSE
    /\ context = FALSE
    /\ canvasSize = [width |-> 0, height |-> 0]
    /\ imageMasks = [f \in 0..(NumFiles - 1) |-> <<>>]
    /\ lines = EmptyLine
    /\ dragging = FALSE
    /\ renders = <<>>
    /\ showBatchButton = FALSE
    /\ currentImageProcessed = FALSE
    /\ processedFile = -1
    /\ lastUndo = "none"

NextSession ==
    \/ GetGlobalInpaintSession
    \/ ClearGlobalSession
    \/ \E p \in SessionIds : DisposeCallback(p)
    \/ \E c \in 1..Len(calls) : CallSettles(c)
    \/ \E p \in SessionIds, ok \in BOOLEAN, disposable \in BOOLEAN :
           ConstructionSettles(p, ok, disposable)

NextBatch ==
    \/ \E index \in 0..(NumFiles - 1) : SelectImage(index)
    \/ \E includeCurrentFile \in BOOLEAN, saveToDb \in BOOLEAN,
          validMasks \in BOOLEAN :
           HandleProcessRemaining(includeCurrentFile, saveToDb, validMasks)
    \/ \E r \in Runs, ok \in BOOLEAN : SessionSettles(r, ok)
    \/ \E r \in Runs, j \in Items, ok \in BOOLEAN, maskOk \in BOOLEAN :
           DecodeSettles(r, j, ok, maskOk)
    \/ \E r \in Runs, j \in Items,
          res \in {"rejected", "empty", "short", "valid"} :
           InferSettles(r, j, res)
    \/ \E r \in Runs, j \in Items, ok \in BOOLEAN : SaveSettles(r, j, ok)
    \/ \E r \in Runs, j \in Items : IdleCallback(r, j)
    \/ \E r \in Runs : ResumeAfterItem(r)
    \/ \E r \in Runs : LoopYieldDone(r)
    \/ OnCancel
    \/ GoBack

NextScheduler ==
    \/ \E batching \in BOOLEAN, offscreen \in BOOLEAN :
           Mount(batching, offscreen)
    \/ \E priority \in Priorities, kind \in ThunkKinds : Draw(priority, kind)
    \/ \E canvasOk \in BOOLEAN : Frame(canvasOk)
    \/ Clear
    \/ \E ms \in Ticks : Tick(ms)
    \/ Unmount

NextCoordinates ==
    \/ \E x \in DisplayCoords, y \in DisplayCoords, size \in Sizes :
           CallCanvasToRelative(x, y, size)
    \/ \E x \in RelativeCoords, y \in RelativeCoords,
          size \in PositiveSizes : CallRelativeToImage(x, y, size)
    \/ \E x \in RelativeCoords, y \in RelativeCoords,
          size \in PositiveSizes : CallRoundTrip(x, y, size)
    \/ CoordDone

NextStrokes ==
    \/ \E size \in CanvasSizes : SetContext(size)
    \/ PointerStart
    \/ \E place \in PointerPlaces, touch \in BOOLEAN : Paint(place, touch)
    \/ \E touch \in BOOLEAN : PointerUp(touch)
    \/ \E maskIndex \in 1..MaxStrokes : DeleteMask(maskIndex)
    \/ ClearMarks
    \/ Undo
    \/ \E ok \in BOOLEAN : ProcessBatch(ok)
    \/ \E index \in 0..(NumFiles - 1) : SelectImage(index)

NextMask ==
    \/ \E masks \in MaskLists, options \in TargetSizes :
           CallCreateMaskCanvas(masks, options)
    \/ MaskDone

\* createMaskCanvas under arbitrary arguments.
SpecMask == Init /\ [][NextMask]_vars

NextFileName ==
    \/ \E originalName \in FileNames : CallGetProcessedFileName(originalName)
    \/ NameDone

\* getProcessedFileName under arbitrary file names.
SpecFileName == Init /\ [][NextFileName]_vars

NextExport ==
    \/ StageRecord
    \/ OpenPage
    \/ ClosePage
    \/ \E format \in Formats : DownloadAll(format)
    \/ \E ok \in BOOLEAN : ConvertSettles(ok)
    \/ \E ok \in BOOLEAN : ZipSettles(ok)
    \/ \E ok \in BOOLEAN : ClearTimerFires(ok)

\* The staging store and the bulk export of the download page.
SpecExport == Init /\ [][NextExport]_vars

NextPool ==
    \/ \E rows \in MatSizes, cols \in MatSizes : GetMat(rows, cols)
    \/ \E mat \in Mats, rows \in MatSizes, cols \in MatSizes :
           SetMatSize(mat, rows, cols)
    \/ \E mat \in Mats : ReleaseMat(mat)
    \/ IntervalPasses
    \/ Cleanup
    \/ ForceCleanup
    \/ Destroy

\* The pool of Mats of the memory manager and the holders of its Mats.
SpecPool == Init /\ [][NextPool]_vars

\* The batch runs of the App under arbitrary user actions and outcomes of
\* the asynchronous steps.
SpecBatch == Init /\ [][NextBatch]_vars

\* A continuation of run r: the settling of the asynchronous operation the
\* run awaits, or the resumption of the run after it.
RunStep(r) ==
    \/ \E ok \in BOOLEAN : SessionSettles(r, ok)
    \/ \E j \in Items, ok \in BOOLEAN, maskOk \in BOOLEAN :
           DecodeSettles(r, j, ok, maskOk)
    \/ \E j \in Items, res \in {"rejected", "empty", "short", "valid"} :
           InferSettles(r, j, res)
    \/ \E j \in Items, ok \in BOOLEAN : SaveSettles(r, j, ok)
    \/ \E j \in Items : IdleCallback(r, j)
    \/ ResumeAfterItem(r)
    \/ LoopYieldDone(r)

\* handleProcessRemaining called while no run has been started.
StartRun(includeCurrentFile, saveToDb, validMasks) ==
    /\ \A r \in Runs : pc[r] = "idle"
    /\ HandleProcessRemaining(includeCurrentFile, saveToDb, validMasks)

NextSingleRun ==
    \/ \E index \in 0..(NumFiles - 1) : SelectImage(index)
    \/ \E includeCurrentFile \in BOOLEAN, saveToDb \in BOOLEAN,
          validMasks \in BOOLEAN :
           StartRun(includeCurrentFile, saveToDb, validMasks)
    \/ \E r \in Runs : RunStep(r)
    \/ OnCancel
    \/ GoBack

\* One batch run, with every outcome of its asynchronous steps, when every
\* asynchronous operation settles and the event loop runs every
\* continuation that is ready.
SpecSingleRunFair ==
    Init /\ [][NextSingleRun]_vars /\ \A r \in Runs : WF_vars(RunStep(r))

\* The session manager under arbitrary callers.
SpecSession == Init /\ [][NextSession]_vars

\* The draw scheduler under arbitrary callers, thunks and frame timing.
SpecScheduler == Init /\ [][NextScheduler]_vars

\* The coordinate conversions applied to points and sizes.
SpecCoordinates == Init /\ [][NextCoordinates]_vars

\* The strokes of the editor under arbitrary pointer input and commands.
SpecStrokes == Init /\ [][NextStrokes]_vars

\* ------------------------------------------------------------------------
\* Session manager: properties
\* ------------------------------------------------------------------------

\* The constructions the manager started while epoch was e.
StartedInEpoch(e) ==
    {p \in SessionIds : createdBy[p] = "manager" /\ startEpoch[p] = e}

\* C4: getGlobalInpaintSession() calls with no clearGlobalSession() between
\* them all get the promise of one construction, hence the same session
\* handle, whether they are made before or after that construction has
\* resolved; the manager starts at most one construction between two
\* clearGlobalSession() calls.
C4_SessionReuse ==
    /\ \A c1, c2 \in 1..Len(calls) :
           calls[c1].epoch = calls[c2].epoch
               => calls[c1].promise = calls[c2].promise
    /\ \A e \in 0..epoch : Cardinality(StartedInEpoch(e)) <= 1

\* C4 witness: a second call made while the construction started by the
\* first was still pending, and a third made after it had resolved, all
\* three resolved.
C4_Witness ==
    \E c1, c2, c3 \in 1..Len(calls) :
        /\ calls[c1].epoch = calls[c2].epoch
        /\ calls[c1].epoch = calls[c3].epoch
        /\ calls[c1].seen = "unborn"
        /\ calls[c2].seen = "pending"
        /\ calls[c3].seen = "fulfilled"
        /\ calls[c1].state = "fulfilled"
        /\ calls[c2].state = "fulfilled"
        /\ calls[c3].state = "fulfilled"

\* The sessions of the manager under construction, and those constructed
\* and not disposed of.
UnderConstruction ==
    {p \in SessionIds : createdBy[p] = "manager" /\ construction[p] = "pending"}

Live ==
    {p \in SessionIds : /\ createdBy[p] = "manager"
                        /\ construction[p] = "fulfilled"
                        /\ ~disposed[p]}

\* C6: at any time at most one session is under construction and at most
\* one constructed session has not been disposed of.
C6_AtMostOneSession ==
    /\ Cardinality(UnderConstruction) <= 1
    /\ Cardinality(Live) <= 1

\* C7: once clearGlobalSession() has removed a session's promise, the cache
\* never holds that promise again, no later getGlobalInpaintSession() call
\* returns it, and, as soon as the pending callbacks have run, the session
\* has been disposed of.
C7_DisposeResets ==
    /\ inpaintSessionPromise # 0 => clearedAt[inpaintSessionPromise] = 0
    /\ \A c \in 1..Len(calls) : \A p \in SessionIds :
           (clearedAt[p] # 0 /\ clearedAt[p] <= calls[c].epoch)
               => calls[c].promise # p
    /\ MicrotasksEmpty =>
           \A p \in SessionIds :
               (clearedAt[p] # 0 /\ construction[p] = "fulfilled")
                   => disposed[p]

\* ------------------------------------------------------------------------
\* Batch run: properties
\* ------------------------------------------------------------------------

\* The loop of run r is past item j.
ItemOver(r, j) == pc[r] = "done" \/ i[r] >= j

\* The processing of item j of run r is between its call and the end of its
\* finally block.
Active(r, j) ==
    phase[r][j] \in {"decode", "infer", "save", "cleanupReturn",
                     "cleanupThrow"}

\* C1: once the loop is past an item whose processing threw (at decode,
\* mask creation, inference, staging write or result validation), a
\* notification naming that item's file has been shown, the next item of
\* the list, if any, has been started, and the run has not been aborted.
C1_FailureIsolated ==
    \A r \in Runs : \A j \in thrown[r] :
        ItemOver(r, j) =>
            /\ Notification("itemError", r, FileOf(BatchState, r, j), 0)
                   \in notifications
            /\ outcome[r] # "Failed"
            /\ j < job[r].total => Len(progressCalls[r]) > j

\* C1 witness: a finished run whose first item failed and whose second
\* item succeeded.
C1_Witness ==
    \E r \in Runs :
        /\ pc[r] = "done"
        /\ 1 \in thrown[r]
        /\ 2 \in succeeded[r]

\* C2: once the user has cancelled run r, no further item of r is started
\* (no progress callback) and r does not end as Completed.
C2_CancelStopsBatch ==
    [][\A r \in Runs :
           cancelled[r] => /\ progressCalls'[r] = progressCalls[r]
                           /\ outcome'[r] # "Completed"]_vars

\* C3: within a run the progress reports come in list order, at most one
\* item is being processed at any time, and an item is started only when
\* the processing of the item before it, its cleanup and the yield of its
\* finally block included, has finished.
C3_Sequential ==
    \A r \in Runs :
        /\ Cardinality({j \in Items : Active(r, j)}) <= 1
        /\ \A j \in Items :
               (j + 1 \in Items /\ phase[r][j + 1] # "new")
                   => phase[r][j] \in {"returned", "threw"}
        /\ \A k \in 1..Len(progressCalls[r]) : progressCalls[r][k][1] = k

\* C3 witness: the second item of a run is at inference, the first has
\* returned.
C3_Witness ==
    \E r \in Runs : phase[r][1] = "returned" /\ phase[r][2] = "infer"

\* C5: no batch run constructs a session of its own, and at most one
\* session is ever constructed (clearGlobalSession is not called here).
C5_BatchUsesSharedSession ==
    /\ \A p \in SessionIds : createdBy[p] # "batch"
    /\ Cardinality({p \in SessionIds : construction[p] # "unborn"}) <= 1

\* C8: the count of processed images in the success notification of a
\* direct-download run is the number of its items that succeeded.
C8_ReportCountsSuccesses ==
    \A n \in notifications :
        n.kind = "success" => n.count = Cardinality(succeeded[n.run])

\* C9: when the construction of a run's session fails, the run has ended
\* Failed, the failure has been notified, no progress has been reported for
\* an item and no item has been processed; the step that ends a run in
\* Failed clears the progress state.
C9_SessionFailureIsFatal ==
    /\ [](\A r \in Runs :
              (runSession[r] # 0 /\ construction[runSession[r]] = "rejected")
                  => /\ pc[r] = "done"
                     /\ outcome[r] = "Failed"
                     /\ Notification("batchError", r, -1, 0) \in notifications
                     /\ progressCalls[r] = <<>>
                     /\ \A j \in Items : phase[r][j] = "new")
    /\ [][\A r \in Runs :
              (outcome[r] = "none" /\ outcome'[r] = "Failed")
                  => batchProgress' = Null]_vars

\* C9 witness: a run whose session construction was rejected has ended.
C9_Witness ==
    \E r \in Runs :
        /\ runSession[r] # 0
        /\ construction[runSession[r]] = "rejected"
        /\ outcome[r] = "Failed"

\* C10: when an item of a run has been started, no object URL, bitmap or
\* canvas acquired for the item before it is still held.
C10_ScratchReleased ==
    \A r \in Runs : \A j \in Items :
        (j + 1 \in Items /\ phase[r][j + 1] # "new")
            => \A k \in {"fileUrl", "bitmap", "canvas"} :
                   <<j, k>> \notin held[r]

\* C11: the k-th progress callback of a run over n items is (k, n) with
\* 1 <= k <= n, so the reported index starts at 1 and grows by one at each
\* call; item j has been started exactly when the j-th callback has been
\* made, the callback once per started item and before the item's first
\* processing step; a run whose loop has ended normally has made n callbacks.
C11_ProgressPerItem ==
    \A r \in Runs :
        /\ \A k \in 1..Len(progressCalls[r]) :
               /\ progressCalls[r][k] = <<k, job[r].total>>
               /\ k <= job[r].total
        /\ \A j \in Items : phase[r][j] # "new" <=> j <= Len(progressCalls[r])
        /\ outcome[r] = "Completed" => Len(progressCalls[r]) = job[r].total

\* C11 witness: a run over all the files has completed after one callback
\* per file.
C11_Witness ==
    \E r \in Runs :
        /\ outcome[r] = "Completed"
        /\ job[r].total = NumFiles
        /\ Len(progressCalls[r]) = NumFiles

\* ------------------------------------------------------------------------
\* Draw scheduler: properties
\* ------------------------------------------------------------------------

\* The operations of q are in descending order of priority.
Descending(q) ==
    \A k1, k2 \in 1..Len(q) :
        k1 < k2 => PriorityOf(SchedState, q[k1]) >= PriorityOf(SchedState, q[k2])

\* The entries the step adds to drawLog.
NewlyRun == SubSeq(drawLog', Len(drawLog) + 1, Len(drawLog'))

\* C12: with batching, a thunk runs only inside a frame callback, never
\* inside the throttledDraw call that submits it; the queue is in descending
\* priority order; and a frame callback that executes a batch none of whose
\* thunks throws runs every queued operation, in queue order, in that one
\* batch.
C12_Coalesced ==
    [][enableBatching =>
          /\ drawLog' # drawLog => step' = "frame"
          /\ Descending(operationQueue)
          /\ (/\ batches' # batches
              /\ \A k \in 1..Len(operationQueue) :
                     KindOf(SchedState, operationQueue[k]) # "throw")
                 => /\ batches' = batches + 1
                    /\ NewlyRun = [k \in 1..Len(operationQueue) |->
                                      [id |-> operationQueue[k],
                                       batch |-> batches']]]_vars

\* C12 witness: MaxOps operations of different priorities were run by one
\* batch.
C12_Witness ==
    /\ enableBatching
    /\ Len(drawLog) = MaxOps
    /\ drawLog[1].batch = drawLog[MaxOps].batch
    /\ PriorityOf(SchedState, drawLog[1].id)
           > PriorityOf(SchedState, drawLog[MaxOps].id)

\* C13: with batching, a batch is executed only when at least ThrottleMs
\* have passed since the last one, and it restarts that interval; a frame
\* callback that runs earlier runs no thunk, adds one to skippedFrames,
\* leaves the queue as it is and requests the next frame.
C13_FramePaced ==
    [][enableBatching =>
          /\ batches' # batches
                 => sinceLastDraw >= ThrottleMs /\ sinceLastDraw' = 0
          /\ (/\ step' \in {"frame", "skip"}
              /\ vars' # vars
              /\ sinceLastDraw < ThrottleMs)
                 => /\ drawLog' = drawLog
                    /\ skippedFrames' = skippedFrames + 1
                    /\ operationQueue' = operationQueue
                    /\ frameId' = "live"
                    /\ pendingFrames' = pendingFrames]_vars

\* C13 witness: a frame was skipped with an operation queued, and a later
\* frame executed the second batch.
C13_Witness ==
    /\ enableBatching
    /\ skippedFrames > 0
    /\ batches >= 2
    /\ drawCalls >= 2

\* C14: of two thunks run by the same batch, the one run first has a
\* priority at least as high as the other's.
C14_PriorityOrder ==
    \A k1, k2 \in 1..Len(drawLog) :
        (k1 < k2 /\ drawLog[k1].batch = drawLog[k2].batch)
            => PriorityOf(SchedState, drawLog[k1].id)
                   >= PriorityOf(SchedState, drawLog[k2].id)

\* C14 witness: a batch ran an operation of higher priority before one of
\* lower priority that was submitted earlier.
C14_Witness ==
    \E k1, k2 \in 1..Len(drawLog) :
        /\ k1 < k2
        /\ drawLog[k1].batch = drawLog[k2].batch
        /\ drawLog[k1].id > drawLog[k2].id
        /\ drawLog[k1].id <= MaxOps
        /\ PriorityOf(SchedState, drawLog[k1].id)
               > PriorityOf(SchedState, drawLog[k2].id)

\* C15: no operation that was submitted and not run when clearQueue was
\* called is run afterwards; when clearQueue has returned, and likewise
\* after the unmount cleanup, the queue is empty and no frame is requested.
C15_ClearDropsAll ==
    /\ dropped \cap Ran(SchedState) = {}
    /\ step \in {"clear", "unmount"}
           => /\ operationQueue = <<>>
              /\ frameId = "null"
              /\ pendingFrames = 0

\* ------------------------------------------------------------------------
\* Coordinate conversions: properties
\* ------------------------------------------------------------------------

\* C19: a point with both coordinates in [0, 1], converted to the pixels of
\* a positive size by relativeToImage and back by canvasToRelative with the
\* same size, is the point itself.
C19_RoundTrip ==
    coordCall.op = "roundTrip" => coordResult = coordCall.point

\* C19 witness: the round trip of a point inside the unit square through a
\* size that is not square.
C19_Witness ==
    /\ coordCall.op = "roundTrip"
    /\ coordCall.point = [x |-> Num(1, 4), y |-> Num(3, 4)]
    /\ coordCall.size = [width |-> 3, height |-> 2]
    /\ coordResult = coordCall.point

\* C20: canvasToRelative of the display point (-0.3, 1.4) is (0, 1) for
\* every size of the canvas.
C20_ClampExample ==
    (/\ coordCall.op = "canvasToRelative"
     /\ coordCall.point = [x |-> Num(-3, 10), y |-> Num(14, 10)]
     /\ ~coordThrew)
        => coordResult = [x |-> Zero, y |-> One]

\* C20 as amended: canvasToRelative of the display point (-0.3, 1.4) has
\* x = 0 for every valid size of the canvas; its y is 1 when the height of
\* the canvas is at most 1.4, and otherwise it is 1.4 / height, below 1.
C20_ClampExampleAmended ==
    (/\ coordCall.op = "canvasToRelative"
     /\ coordCall.point = [x |-> Num(-3, 10), y |-> Num(14, 10)]
     /\ ~coordThrew)
        => /\ coordResult.x = Zero
           /\ coordCall.size.height <= 1 => coordResult.y = One
           /\ coordCall.size.height > 1
                  => /\ Times(coordResult.y, coordCall.size.height)
                            = Num(14, 10)
                     /\ Less(coordResult.y, One)

\* C20 witness: the point (-0.3, 1.4) converted on a canvas of height 2.
C20_Witness ==
    /\ coordCall.op = "canvasToRelative"
    /\ coordCall.point = [x |-> Num(-3, 10), y |-> Num(14, 10)]
    /\ coordCall.size.height = 2
    /\ ~coordThrew
    /\ coordResult = [x |-> Zero, y |-> Num(7, 10)]

\* ------------------------------------------------------------------------
\* Strokes: properties
\* ------------------------------------------------------------------------

\* The coordinate c is in [0, 1].
InUnitInterval(c) == ~Less(c, Zero) /\ ~Less(One, c)

\* C16: every point of every stroke committed for an image has both its
\* coordinates in [0, 1].
C16_CommittedRelative ==
    \A f \in 0..(NumFiles - 1) : \A k \in 1..Len(imageMasks[f]) :
        \A n \in 1..Len(imageMasks[f][k].pts) :
            /\ InUnitInterval(imageMasks[f][k].pts[n].x)
            /\ InUnitInterval(imageMasks[f][k].pts[n].y)

\* C16 witness: a committed stroke with a point drawn to the left of the
\* canvas and below it, clamped to (0, 1), and a committed stroke with a
\* point drawn at the middle of the canvas.
C16_Witness ==
    \E f \in 0..(NumFiles - 1), g \in 0..(NumFiles - 1) :
        \E k \in 1..Len(imageMasks[f]), n \in 1..Len(imageMasks[g]) :
            /\ imageMasks[f][k].pts[1] = [x |-> Zero, y |-> One]
            /\ imageMasks[g][n].pts[1] = [x |-> Num(1, 2), y |-> Num(1, 2)]

\* C17: a call of undo with at least one stroke committed for the current
\* image removes the last of them and changes neither the other images'
\* strokes nor the results; a call with none removes the last result and
\* changes no stroke.
C17_UndoLast ==
    [][Undo =>
           IF Len(PendingMasks) > 0
              THEN /\ imageMasks' = [imageMasks EXCEPT
                                        ![currentFileIndex] = Pop(PendingMasks)]
                   /\ renders' = renders
              ELSE /\ renders' = Pop(renders)
                   /\ Len(renders') = Len(renders) - 1
                   /\ imageMasks' = imageMasks]_vars

\* C17 witness: undo has removed the second of two results, the current
\* image having no stroke.
C17_Witness ==
    /\ lastUndo = "render"
    /\ Len(renders) = 1
    /\ PendingMasks = <<>>

\* C18: every stroke committed for an image has all its points drawn while
\* that image was the one shown.
C18_TemplatesIsolated ==
    \A f \in 0..(NumFiles - 1) : \A k \in 1..Len(imageMasks[f]) :
        imageMasks[f][k].drawnOn \subseteq {f}

\* ------------------------------------------------------------------------
\* Batch run: concurrency and staging
\* ------------------------------------------------------------------------

\* The handleProcessRemaining call r has started and has not returned.
Running(r) == pc[r] \notin {"idle", "done"}

\* The items whose inpaintWithSession call is in flight.
InferencesInFlight ==
    {rj \in Runs \X Items : phase[rj[1]][rj[2]] = "infer"}

\* C23: at any time at most one batch run is running and at most one
\* inference call is in flight.
C23_NeverConcurrent ==
    /\ Cardinality({r \in Runs : Running(r)}) <= 1
    /\ Cardinality(InferencesInFlight) <= 1

\* C29: once the loop of a run in staging mode is past an item, the item
\* has a record in the staging store exactly when its processing succeeded
\* (an item reported as failed has none).
C29_StagedIffSucceeded ==
    \A r \in Runs : \A j \in Items :
        (job[r].saveToDb /\ j <= job[r].total /\ ItemOver(r, j))
            => /\ j \in staged[r] <=> j \in succeeded[r]
               /\ j \in thrown[r] => j \notin staged[r]

\* ------------------------------------------------------------------------
\* Draw scheduler: liveness of the queue, the editor's options, the
\* offscreen canvas
\* ------------------------------------------------------------------------

\* The options the editor gives to useCanvasOptimization, CanvasEditor.tsx
\* lines 303-307.
EditorOptions ==
    [throttleMs |-> ThrottleMs, enableBatching |-> FALSE,
     enableOffscreenCanvas |-> FALSE]

\* The operations in the queue.
Queued(d) == {d.operationQueue[k] : k \in 1..Len(d.operationQueue)}

\* The paint operations among the entries the step adds to drawLog.
NewlyPainted ==
    {NewlyRun[k].id : k \in {n \in 1..Len(NewlyRun) :
                                KindOf([SchedState EXCEPT !.ops = ops'],
                                       NewlyRun[n].id) = "paint"}}

\* C24: while the hook is mounted, a non-empty queue has a frame callback
\* requested, and every operation submitted is in the queue, has been run
\* or was dropped by clearQueue.
C24_EventuallyExecuted ==
    mounted =>
        /\ operationQueue # <<>> => pendingFrames > 0
        /\ Submitted(SchedState)
               \subseteq (Queued(SchedState) \cup Ran(SchedState) \cup dropped)

\* C25: with the options of the editor, a paint thunk runs only when at
\* least ThrottleMs have passed since the paint before it.
C25_PointerMovesCoalesced ==
    [][(/\ mounted
        /\ enableBatching = EditorOptions.enableBatching
        /\ NewlyPainted # {})
           => /\ sinceLastDraw >= ThrottleMs
              /\ Cardinality(NewlyPainted) = 1]_vars

\* C26: with the offscreen canvas, after a frame callback that executed a
\* batch the visible canvas shows what the paint thunks of the batch
\* painted.
C26_TransferKeepsOutput ==
    [][(offscreenCanvas.exists /\ step' = "frame")
           => NewlyPainted \subseteq visible']_vars

\* ------------------------------------------------------------------------
\* Coordinate conversions: failure
\* ------------------------------------------------------------------------

\* C27: a call of canvasToRelative does not throw and returns a point with
\* both coordinates in [0,1], whatever the point and the size of the canvas.
C27_NeverFails ==
    coordCall.op = "canvasToRelative"
        => /\ ~coordThrew
           /\ InUnitInterval(coordResult.x)
           /\ InUnitInterval(coordResult.y)

\* ------------------------------------------------------------------------
\* Mask compositing: properties
\* ------------------------------------------------------------------------

\* The line is painted: it has a point and a width that is defined and not
\* zero.
Paintable(line) ==
    line.pts # <<>> /\ line.size # <<>> /\ line.size # <<0>>

\* C21: createMaskCanvas does not throw, and the paths stroked on the
\* canvas it returns are those of the masks that have a point and a width
\* that is defined and not zero, each once, in the order of the masks: a
\* mask with no point, or with an undefined or zero width, strokes nothing.
C21_EmptyStrokesSkipped ==
    maskCall.op = "createMaskCanvas" =>
        /\ ~maskCall.threw
        /\ maskCall.returned
        /\ LET painted == maskCall.canvas.painted
               kept == SelectSeq(maskCall.masks, Paintable)
           IN  /\ Len(painted) = Len(kept)
               /\ \A k \in 1..Len(kept) :
                      /\ painted[k].pts = kept[k].pts
                      /\ painted[k].lineWidth = kept[k].size

\* C21 witness: of two masks the first has points and no width, the second
\* is painted.
C21_Witness ==
    /\ maskCall.op = "createMaskCanvas"
    /\ Len(maskCall.masks) = 2
    /\ maskCall.masks[1].pts # <<>>
    /\ maskCall.masks[1].size = <<>>
    /\ Len(maskCall.canvas.painted) = 1
    /\ maskCall.canvas.painted[1].pts = maskCall.masks[2].pts

\* C28: a call of createMaskCanvas with a width or a height that is zero or
\* negative throws and returns no canvas.
C28_SurfaceUnavailable ==
    (/\ maskCall.op = "createMaskCanvas"
     /\ (maskCall.options.width <= 0 \/ maskCall.options.height <= 0))
        => maskCall.threw /\ ~maskCall.returned

\* ------------------------------------------------------------------------
\* Output file names: properties
\* ------------------------------------------------------------------------

\* The indices of the dots of a name.
Dots(name) == {k \in 1..Len(name) : name[k] = "."}

\* The first n characters of s, and the ellipsis when s is longer.
WithEllipsis(s, n) ==
    IF Len(s) > n THEN SubSeq(s, 1, n) \o Ellipsis ELSE s

\* C22: the derived name is the base, the fixed suffix and the extension;
\* the extension is the text from the last dot of the original name, or the
\* default extension when it has no dot; the base is the text before the
\* extension with each unsafe punctuation character replaced, cut to
\* MaxBaseNameLength characters and followed by the ellipsis exactly when
\* it was longer.
C22_DerivedName ==
    nameCall.called =>
        LET name == nameCall.name
            dot == IF Dots(name) = {} THEN Len(name) + 1
                   ELSE CHOOSE k \in Dots(name) : \A m \in Dots(name) : m <= k
            extension == IF Dots(name) = {} THEN DefaultExtension
                         ELSE SubSeq(name, dot, Len(name))
            base == [k \in 1..(dot - 1) |->
                        IF name[k] \in UnsafeChars THEN "_" ELSE name[k]]
        IN  nameCall.result =
                WithEllipsis(base, MaxBaseNameLength)
                    \o FilenameSuffixProcessed \o extension

\* C22 as amended: a dot that is the first character of the name starts no
\* extension; in the base each unsafe punctuation character is replaced,
\* the white space at its ends is removed and each run of white space
\* inside it is one space; a base longer than MaxBaseNameLength is cut to
\* that length, loses the space the cut may end with, and is followed by
\* the ellipsis.
C22_DerivedNameAmended ==
    nameCall.called =>
        LET name == nameCall.name
            dots == Dots(name) \ {1}
            dot == IF dots = {} THEN Len(name) + 1
                   ELSE CHOOSE k \in dots : \A m \in dots : m <= k
            extension == IF dots = {} THEN DefaultExtension
                         ELSE SubSeq(name, dot, Len(name))
            raw == SubSeq(name, 1, dot - 1)
            inner(s) == {k \in 1..Len(s) :
                            \/ s[k] \notin WhiteSpace
                            \/ /\ k > 1
                               /\ s[k - 1] \notin WhiteSpace
                               /\ \E m \in (k + 1)..Len(s) :
                                      s[m] \notin WhiteSpace}
            kept == Pick(raw, inner(raw), 1, Len(raw))
            base == [k \in 1..Len(kept) |->
                        IF kept[k] \in UnsafeChars THEN "_" ELSE kept[k]]
            head == SubSeq(base, 1, MaxBaseNameLength)
            cut == IF Len(base) > MaxBaseNameLength
                      THEN Pick(head, inner(head), 1, Len(head)) \o Ellipsis
                      ELSE base
        IN  nameCall.result = cut \o FilenameSuffixProcessed \o extension

\* C22 witness: the name of a call has an extension, and a base that
\* starts with an unsafe character and a space and is longer than
\* MaxBaseNameLength when cleaned.
C22_Witness ==
    /\ nameCall.called
    /\ Len(nameCall.name) = MaxBaseNameLength + 4
    /\ nameCall.name[1] = ","
    /\ nameCall.name[2] = " "
    /\ nameCall.name[Len(nameCall.name) - 1] = "."
    /\ nameCall.name[Len(nameCall.name)] = "a"

\* ------------------------------------------------------------------------
\* Bulk export: properties
\* ------------------------------------------------------------------------

\* C30: a record leaves the store only when a timer set by an export that
\* downloaded its archive fires; the step in which an export fails (a
\* conversion or the building of the archive) removes no record and sets no
\* timer; and there are never more timers set than exports that succeeded.
C30_ClearOnlyAfterSuccess ==
    [][/\ ~(dbStore \subseteq dbStore')
           => /\ clearTimers # <<>>
              /\ clearTimers' = Tail(clearTimers)
              /\ exportStats.ok > exportStats.clears
       /\ exportStats'.failed # exportStats.failed
           => /\ dbStore' = dbStore
              /\ clearTimers' = clearTimers
       /\ Len(clearTimers') + exportStats'.clears <= exportStats'.ok]_vars

\* C30 witness: one export failed and left the records in the store, and
\* one succeeded and its timer has cleared the store.
C30_Witness ==
    /\ exportStats = [ok |-> 1, failed |-> 1, clears |-> 1]
    /\ clearTimers = <<>>
    /\ dbStore = {}
    /\ dbNext = MaxRecords

\* C38: the deferred clear of an export removes only records that were
\* part of that export; a record staged after the export was read is not
\* removed by the export's timer.
C38_ClearRemovesOnlyExported ==
    [][(dbStore \ dbStore')
           \subseteq (IF clearTimers # <<>> THEN Head(clearTimers) ELSE {})]_vars

\* ------------------------------------------------------------------------
\* Mat pool: properties
\* ------------------------------------------------------------------------

Held(mat) == matHolders[mat] > 0

\* C39 as stated: at any time every Mat has at most one holder and no
\* holder has a deleted Mat.
C39_OneHolderNeverDeleted ==
    \A mat \in Mats :
        /\ matHolders[mat] <= 1
        /\ Held(mat) => mat \notin matDeleted

\* C39: every Mat has at most one holder, getMat hands out no deleted Mat,
\* and no step but destroy() deletes a Mat that is still held after it.
C39_OneHolderDeletedOnlyByDestroy ==
    [][\A mat \in Mats :
           /\ matHolders'[mat] <= 1
           /\ matHolders'[mat] > matHolders[mat] => mat \notin matDeleted'
           /\ (matHolders'[mat] > 0 /\ mat \in matDeleted' \ matDeleted)
                  => matDestroys' > matDestroys]_vars

\* C39 witness: a cleanup has deleted the first Mat, which was in the pool
\* and not in use, while the second Mat, in the pool and in use, has its one
\* holder and is not deleted.
C39_Witness ==
    /\ matDestroys = 0
    /\ 1 \in matDeleted
    /\ matHolders[2] = 1
    /\ 2 \notin matDeleted
    /\ \E k \in 1..Len(matPool) :
           matPool[k].mat = 2 /\ matPool[k].inUse /\ matPool[k].lastUsed > 0

\* ------------------------------------------------------------------------
\* Session manager: failed construction
\* ------------------------------------------------------------------------

\* C35: a call of getGlobalInpaintSession() that finds a rejected promise in
\* the cache starts no construction and fails as well; every call made
\* after a call whose promise was rejected, with no clearGlobalSession()
\* between them, gets that same promise.
C35_FailureStaysCached ==
    /\ \A c \in 1..Len(calls) :
           calls[c].seen = "rejected"
               => /\ calls[c].state \in {"awaiting", "rejected"}
                  /\ construction[calls[c].promise] = "rejected"
    /\ \A c \in 1..Len(calls), d \in 1..Len(calls) :
           (/\ c < d
            /\ calls[c].epoch = calls[d].epoch
            /\ construction[calls[c].promise] = "rejected")
               => /\ calls[d].promise = calls[c].promise
                  /\ calls[d].seen # "unborn"
                  /\ calls[d].state \in {"awaiting", "rejected"}

\* C35 witness: the construction of the first call was rejected, and a
\* second call, made after the rejection and without a clear, has failed.
C35_Witness ==
    /\ Len(calls) >= 2
    /\ calls[1].state = "rejected"
    /\ calls[2].seen = "rejected"
    /\ calls[2].state = "rejected"
    /\ calls[2].epoch = calls[1].epoch

\* ------------------------------------------------------------------------
\* Batch run: refused requests
\* ------------------------------------------------------------------------

\* C34: a request with an empty list of files, or with a template without
\* a stroke that has a point, starts nothing (no session is constructed, no
\* progress is set or reported, no run leaves "idle", no item is begun) and
\* adds the notification of its case.
C34_NoRunWithoutFilesOrMasks ==
    [][\A includeCurrentFile \in BOOLEAN, saveToDb \in BOOLEAN,
          validMasks \in BOOLEAN :
           LET first == IF includeCurrentFile THEN currentFileIndex
                                              ELSE currentFileIndex + 1
               empty == NumFiles - first = 0
           IN  (/\ HandleProcessRemaining(includeCurrentFile, saveToDb,
                                          validMasks)
                /\ empty \/ ~validMasks)
                   => /\ UNCHANGED <<sessionVars, batchProgress, pc, job,
                                     runSession, i, phase, progressCalls,
                                     held, staged, downloads>>
                      /\ notifications' = notifications \cup
                             {Notification(IF empty THEN "info"
                                                    ELSE "warning",
                                           0, -1, 0)}]_vars

\* C34 witness: both requests were made and refused before any run was
\* started.
C34_Witness ==
    /\ Notification("info", 0, -1, 0) \in notifications
    /\ Notification("warning", 0, -1, 0) \in notifications
    /\ \A r \in Runs : pc[r] = "idle"
    /\ Unborn = SessionIds

\* ------------------------------------------------------------------------
\* Batch run: the progress overlay
\* ------------------------------------------------------------------------

\* App.tsx, lines 477-486: the prop currentFileName of ProcessingOverlay,
\* a file standing for its name; -1 is 'Processing...' (no such file) and
\* -2 is 'Starting...'.
CurrentFileName(s) ==
    IF s.batchProgress[1] > 0
       THEN IF s.currentFileIndex + s.batchProgress[1] < NumFiles
               THEN s.currentFileIndex + s.batchProgress[1]
               ELSE -1
       ELSE -2

\* C37: while a run is processing the item at a position of its list and
\* the overlay is shown, the overlay names the file of that item.
C37_OverlayNamesCurrentItem ==
    \A r \in Runs :
        (pc[r] = "awaitItem" /\ batchProgress # Null)
            => CurrentFileName(BatchState) = FileOf(BatchState, r, i[r] + 1)

\* ------------------------------------------------------------------------
\* Batch run: termination
\* ------------------------------------------------------------------------

\* Every item of the list of run r was attempted, once and in order: the
\* progress was reported once for each position and each item's call has
\* returned or thrown.
AttemptedEveryItemOnce(r) ==
    /\ progressCalls[r] = [k \in 1..job[r].total |-> <<k, job[r].total>>]
    /\ \A j \in 1..job[r].total : phase[r][j] \in {"returned", "threw"}

\* No item of the list of run r was attempted.
AttemptedNoItem(r) ==
    /\ progressCalls[r] = <<>>
    /\ \A j \in Items : phase[r][j] = "new"

\* C32 as stated, its safety part: a run that has ended has attempted every
\* item of its list exactly once.
C32_EndsAfterEveryItem ==
    \A r \in Runs : pc[r] = "done" => AttemptedEveryItemOnce(r)

\* C32: when the construction of the session and every step of an item
\* settle, a started run ends; it ends Completed after having attempted
\* every item exactly once, or Failed without having attempted any item
\* when the construction of its session failed; and the step that ends it
\* clears the progress.
C32_RunTerminates ==
    /\ \A r \in Runs : (pc[r] # "idle") ~> (pc[r] = "done")
    /\ [](\A r \in Runs :
              pc[r] = "done"
                  => \/ /\ outcome[r] = "Completed"
                        /\ AttemptedEveryItemOnce(r)
                     \/ /\ outcome[r] = "Failed"
                        /\ construction[runSession[r]] = "rejected"
                        /\ AttemptedNoItem(r))
    /\ [][\A r \in Runs :
              (pc[r] # "done" /\ pc'[r] = "done") => batchProgress' = Null]_vars

\* C32 witness: a run over every file has ended Completed, one of its items
\* having failed, and the progress is cleared.
C32_Witness ==
    /\ pc[1] = "done"
    /\ outcome[1] = "Completed"
    /\ job[1].total = NumFiles
    /\ thrown[1] # {}
    /\ succeeded[1] # {}
    /\ batchProgress = Null

\* ------------------------------------------------------------------------
\* Editor: the results and the processed flag
\* ------------------------------------------------------------------------

\* C31: every result kept was produced for the image shown (so that no
\* result of another image is shown, given to the inference or removed by
\* undo), and the image shown is marked as processed only if processBatch
\* was called for it.
C31_ResultsOfCurrentImage ==
    /\ \A k \in 1..Len(renders) : renders[k] = currentFileIndex
    /\ CurrentImage = currentFileIndex
    /\ currentImageProcessed => processedFile = currentFileIndex

\* C36: a call of processBatch that fails adds no result, does not mark the
\* image as processed and leaves the process button shown.
C36_FailureLeavesEditorState ==
    [][(ProcessBatch(FALSE) /\ renders' = renders)
           => /\ currentImageProcessed' = currentImageProcessed
              /\ ProcessButtonShown']_vars

\* ------------------------------------------------------------------------
\* getProcessedFileName: the length and the characters of the result
\* ------------------------------------------------------------------------

\* The length of the longest derived name whose base was cut and whose
\* extension is a dot and MaxAffix characters.
CappedNameLength ==
    MaxBaseNameLength + Len(Ellipsis) + Len(FilenameSuffixProcessed)
        + 1 + MaxAffix

\* C33: the derived name is no longer than a fixed length and has no
\* comma, semicolon or colon.
C33_CappedAndClean ==
    nameCall.called =>
        /\ Len(nameCall.result) <= CappedNameLength
        /\ \A k \in 1..Len(nameCall.result) :
               nameCall.result[k] \notin UnsafeChars

====
